---- MODULE Spec2Model ----
(***************************************************************************)
(* A model of the JVMTI assembly capture agent (jvmtiasmgent.c): the       *)
(* binary encoder, the per-event method cache, the three event handlers,   *)
(* and the session (Agent_OnLoad / Agent_OnUnload) with its file lock.     *)
(*                                                                         *)
(* Threads 1..NumThreads are runtime threads, each delivering one event.   *)
(* OnLoadThread runs Agent_OnLoad and OnUnloadThread runs Agent_OnUnload.  *)
(* The output file is the sequence of bytes handed to fwrite; the ghost    *)
(* variable writer records, per byte, the thread that wrote it.            *)
(*                                                                         *)
(* The timing wrapper (timing_wrapper.c) is a separate program: its main   *)
(* and the child it forks are the variable tw and the specification        *)
(* SpecTiming.                                                             *)
(***************************************************************************)
EXTENDS Integers, Sequences, FiniteSets, TLC

\* ------------------------------------------------------------------ bounds
\* Number of runtime threads delivering events concurrently.
NumThreads == 2
\* Longest inline stack (numstackframes) of a PCStackInfo.
MaxFrames == 2
\* Longest destination path drawn for Agent_OnLoad.
MaxPathLen == 4

Threads == 1..NumThreads
OnLoadThread == NumThreads + 1
OnUnloadThread == NumThreads + 2
AllThreads == 1..(NumThreads + 2)
\* file_lock value when no thread owns the mutex
Unlocked == 0

\* ------------------------------------------------------------ C values
\* A pointer to a string or table is the 1-tuple <<contents>>; NULL is <<>>.
NULL == <<>>
Ptr(s) == <<s>>
Deref(p) == p[1]

\* The four bytes of a 32-bit two's complement word, most significant first.
NumBytes32(x) ==
    << (x \div 16777216) % 256, (x \div 65536) % 256, (x \div 256) % 256, x % 256 >>

\* The jint whose two's complement bytes, most significant first, are b.
FromBytes32(b) ==
    LET u == (b[1] % 128) * 16777216 + b[2] * 65536 + b[3] * 256 + b[4]
    IN  IF b[1] >= 128 THEN (u - 2147483647) - 1 ELSE u

Reverse(s) == [i \in 1..Len(s) |-> s[Len(s) + 1 - i]]

\* A jlong (also intptr_t, time_t, long on the 64-bit hosts the agent is
\* built for) is its eight two's complement bytes, most significant first.
J64(n) == <<0, 0, 0, 0, 0, 0, 0, n>>
\* (jint)value and (jint)(value >> 32)
LowWord(value) == FromBytes32(SubSeq(value, 5, 8))
HighWord(value) == FromBytes32(SubSeq(value, 1, 4))

\* The bytes an object occupies in memory on the host, lowest address first.
Mem32(x, little) == IF little THEN Reverse(NumBytes32(x)) ELSE NumBytes32(x)
Mem64(v, little) == IF little THEN Reverse(v) ELSE v

\* htonl: the identity on a big-endian host, a byte swap on a little-endian one
htonl(x, little) == IF little THEN FromBytes32(Reverse(NumBytes32(x))) ELSE x

\* ------------------------------------------------------- file format tags
TAG_VALUE(t, shift) == (t % 256) * shift
BUILD_TAG(a, b, c, d) ==
    \* the top byte of every tag is an ASCII letter, so the int is positive
    TAG_VALUE(a, 16777216) + TAG_VALUE(b, 65536) + TAG_VALUE(c, 256) + TAG_VALUE(d, 1)
DynamicCodeTag == BUILD_TAG(68, 89, 78, 67)
CompiledMethodLoadTag == BUILD_TAG(67, 77, 76, 84)
MethodsTag == BUILD_TAG(77, 84, 72, 84)
DebugInfoTag == BUILD_TAG(68, 69, 66, 73)
CompiledMethodUnloadTag == BUILD_TAG(67, 77, 85, 84)
filetag == <<74, 86, 77, 84, 73, 65, 83, 77>>
MajorVersion == 1
MinorVersion == 0
\* QUOTE2(JVMTI_ASM_ARCH): the build's architecture name, here "amd64"
arch == Ptr(<<97, 109, 100, 54, 52>>)

\* ------------------------------------------------------------- the encoder
\* The effect of a write routine: the bytes it appended, and whether it
\* returned (ok) or called report_error, which aborts the process.
Wrote(bytes) == [out |-> bytes, ok |-> TRUE]
Failed == [out |-> <<>>, ok |-> FALSE]
Then(a, b) == IF a.ok THEN [out |-> a.out \o b.out, ok |-> b.ok] ELSE a

\* fwrite(data, size, 1, f) on a stream without I/O error: the number of
\* items written, which is 0 when size is 0.
fwrite(size, nmemb) == IF size = 0 \/ nmemb = 0 THEN 0 ELSE nmemb

write_or_fail(data, bytes) ==
    IF fwrite(bytes, 1) # 1 THEN Failed ELSE Wrote(SubSeq(data, 1, bytes))

write_jint(value, little) ==
    write_or_fail(Mem32(htonl(value, little), little), 4)

\* Faulty variant of write_unsigned_jlong: the value is written in native order
write_unsigned_jlong_native(value, little) ==
    write_or_fail(Mem64(value, little), 8)

write_unsigned_jlong(value, little) ==
    IF 1 # htonl(1, little)
    THEN Then(write_jint(HighWord(value), little), write_jint(LowWord(value), little))
    ELSE write_or_fail(Mem64(value, little), 8)

write_string(str, little) ==
    IF str = NULL THEN Failed
    ELSE LET len == Len(Deref(str))
         IN  Then(write_jint(len, little),
                  IF len > 0 THEN write_or_fail(Deref(str), len) ELSE Wrote(<<>>))

\* Faulty variant of write_string_or_null: NULL is written like the empty string
write_string_or_null_empty(str, little) ==
    IF str = NULL THEN write_jint(0, little) ELSE write_string(str, little)

write_string_or_null(str, little) ==
    IF str = NULL THEN write_jint(-1, little) ELSE write_string(str, little)

write_timestamp(ts, little) ==
    Then(write_unsigned_jlong(ts.tv_sec, little), write_unsigned_jlong(ts.tv_nsec, little))

\* --------------------------------------------------------- the environment
\* jvmtiError values the agent distinguishes; JVMTI_ERROR_OUT_OF_MEMORY
\* stands for every other error.
JVMTI_ERROR_NONE == "JVMTI_ERROR_NONE"
JVMTI_ERROR_NATIVE_METHOD == "JVMTI_ERROR_NATIVE_METHOD"
JVMTI_ERROR_ABSENT_INFORMATION == "JVMTI_ERROR_ABSENT_INFORMATION"
JVMTI_ERROR_WRONG_PHASE == "JVMTI_ERROR_WRONG_PHASE"
JVMTI_ERROR_OUT_OF_MEMORY == "JVMTI_ERROR_OUT_OF_MEMORY"

\* jmethodID handles known to the runtime
Methods == {1, 2, 3}

\* What the runtime answers to the five queries of lookup_method for each
\* method when it is not failing: res[q] is the result of query q
\* (1 GetMethodName, 2 GetMethodDeclaringClass, 3 GetClassSignature,
\* 4 GetSourceFileName, 5 GetLineNumberTable) and the other fields are the
\* values it stores through the out-parameters when res[q] is NONE.
LineEntry(loc, line) == [start_location |-> J64(loc), line_number |-> line]
MethodInfo(m, r4, src, r5, lines) ==
    [res |-> <<JVMTI_ERROR_NONE, JVMTI_ERROR_NONE, JVMTI_ERROR_NONE, r4, r5>>,
     method_name |-> <<96 + m>>, method_signature |-> <<40, 41, 86>>,
     class_signature |-> <<76, 64 + m, 59>>,
     source_file |-> src, line_number_table |-> lines]
\* Method 1 has a source file and line numbers, method 2 is native with no
\* source file, method 3 has an empty source file name and an empty table.
World1 ==
    (1 :> MethodInfo(1, JVMTI_ERROR_NONE, <<70, 49>>,
                        JVMTI_ERROR_NONE, <<LineEntry(0, 10), LineEntry(4, -1)>>)) @@
    (2 :> MethodInfo(2, JVMTI_ERROR_ABSENT_INFORMATION, <<>>,
                        JVMTI_ERROR_NATIVE_METHOD, <<>>)) @@
    (3 :> MethodInfo(3, JVMTI_ERROR_NONE, <<>>, JVMTI_ERROR_NONE, <<>>))

\* ------------------------------------------------------------------ events
CompiledMethodLoad == "CompiledMethodLoad"
CompiledMethodUnload == "CompiledMethodUnload"
DynamicCodeGenerated == "DynamicCodeGenerated"

JVMTI_CMLR_DUMMY == "JVMTI_CMLR_DUMMY"
JVMTI_CMLR_INLINE_INFO == "JVMTI_CMLR_INLINE_INFO"

\* One PCStackInfo: the frames' methods, with bytecode indices of which the
\* first is -1 (no bytecode index known for that frame).
PCStackInfo(i, ms) ==
    [pc |-> J64(16 * i), numstackframes |-> Len(ms), methods |-> ms,
     bcis |-> [j \in 1..Len(ms) |-> IF j = 1 THEN -1 ELSE 7 * j]]
InlineRecord(pcinfo) ==
    [kind |-> JVMTI_CMLR_INLINE_INFO, numpcs |-> Len(pcinfo), pcinfo |-> pcinfo]
DummyRecord == [kind |-> JVMTI_CMLR_DUMMY, numpcs |-> 0, pcinfo |-> <<>>]

\* The arguments of one event; those a kind does not have are left at a
\* fixed value. code is the memory at code_addr, code_size bytes long.
Event(kind, name, method, code, info) ==
    [kind |-> kind, name |-> name, method |-> method, code_addr |-> J64(64),
     code_size |-> Len(code), code |-> code, compile_info |-> info]

SeqsUpTo(S, n) == UNION {[1..k -> S] : k \in 0..n}

FrameLists == SeqsUpTo(Methods, MaxFrames)
\* No pc entry, one entry, or two entries of which the second lists the
\* frames of the first in reverse order.
PcInfos ==
    {<<>>} \cup {<<PCStackInfo(1, f)>> : f \in FrameLists}
           \cup {<<PCStackInfo(1, f), PCStackInfo(2, Reverse(f))>> : f \in FrameLists}
\* compile_info: NULL, a chain without an inline record, or a chain whose
\* inline record comes first or second.
CompileInfos ==
    {<<>>, <<DummyRecord>>}
      \cup {<<InlineRecord(p)>> : p \in PcInfos}
      \cup {<<DummyRecord, InlineRecord(<<PCStackInfo(1, <<2>>)>>), InlineRecord(<<>>)>>}

AllEvents ==
    {Event(DynamicCodeGenerated, Ptr(n), 1, c, <<>>) :
         n \in {<<>>, <<115, 116>>}, c \in {<<>>, <<195>>, <<144, 195>>}}
      \cup {Event(CompiledMethodUnload, NULL, m, <<>>, <<>>) : m \in {1}}
      \cup {Event(CompiledMethodLoad, NULL, m, c, i) :
               m \in Methods, c \in {<<>>, <<144, 195>>}, i \in CompileInfos}

\* The events the concurrent specification delivers: one of each kind, a
\* stub without code, and a compiled method with inlined frames.
FewEvents ==
    <<Event(DynamicCodeGenerated, Ptr(<<>>), 1, <<>>, <<>>),
      Event(DynamicCodeGenerated, Ptr(<<115, 116>>), 1, <<195>>, <<>>),
      Event(CompiledMethodUnload, NULL, 1, <<>>, <<>>),
      Event(CompiledMethodLoad, NULL, 1, <<195>>, <<>>),
      Event(CompiledMethodLoad, NULL, 2, <<195>>,
            <<InlineRecord(<<PCStackInfo(1, <<3, 2>>)>>)>>)>>
NoEvent == Event("none", NULL, 1, <<>>, <<>>)

\* 64-bit values v with their two 32-bit words, hi = (jint)(v >> 32) and
\* lo = (jint)v, and the eight bytes of v: small, negative, the extremes,
\* and values whose low or high word has its top bit set.
WideValues ==
    {[hi |-> 0, lo |-> 64, bytes |-> <<0, 0, 0, 0, 0, 0, 0, 64>>],
     [hi |-> -1, lo |-> -1, bytes |-> <<255, 255, 255, 255, 255, 255, 255, 255>>],
     [hi |-> -2147483647 - 1, lo |-> 0, bytes |-> <<128, 0, 0, 0, 0, 0, 0, 0>>],
     [hi |-> 2147483647, lo |-> -1,
      bytes |-> <<127, 255, 255, 255, 255, 255, 255, 255>>],
     [hi |-> 0, lo |-> -2147483647 - 1, bytes |-> <<0, 0, 0, 0, 128, 0, 0, 0>>],
     [hi |-> 32530, lo |-> -19088744, bytes |-> <<0, 0, 127, 18, 254, 220, 186, 152>>],
     [hi |-> 16909060, lo |-> 84281096, bytes |-> <<1, 2, 3, 4, 5, 6, 7, 8>>],
     [hi |-> -1, lo |-> 0, bytes |-> <<255, 255, 255, 255, 0, 0, 0, 0>>]}

\* ------------------------------------------------------------------- paths
Paths == SeqsUpTo({"%", "p", "a"}, MaxPathLen)
HelpShort == <<"-", "h">>
HelpLong == <<"-", "-", "h", "e", "l", "p">>

\* ------------------------------------------------------------------- state
VARIABLES
    output_file,    \* the FILE* global: NULL or Ptr("stream")
    file_lock,      \* owner of the mutex, or Unlocked
    jvmti_enabled,  \* event kinds whose callbacks the runtime may invoke
    stream,         \* the stdio stream: "unopened", "open" or "closed"
    opened_name,    \* the file name given to fopen
    file,           \* bytes written to the stream so far
    writer,         \* ghost: writer[i] is the thread that wrote file[i]
    flushed,        \* number of leading bytes of file known to be on disk
    term,           \* "running", or how the process ended
    ended_by,       \* ghost: the thread that ended the process, or 0
    fault,          \* ghost: the failure the environment produced, or "none"
    acquired,       \* ghost: how often each thread has taken the lock
    shutdown_seen,  \* ghost: threads a query answered JVMTI_ERROR_WRONG_PHASE
    pc,             \* control point of every thread
    local,          \* the handler threads' local variables
    filename,       \* Agent_OnLoad's local variable
    heap,           \* ghost: live allocations (calloc and JVMTI Allocate)
    double_free,    \* ghost: an allocation that was not live has been freed
    checked,        \* ghost: threads that tested output_file since locking
    status,         \* ghost: outcome of each thread's event
    options, pid, little_endian, meta, todo,  \* the environment
    faults,         \* the kinds of failure the environment produces
    early,          \* whether events arrive before Agent_OnLoad has returned
    later,          \* the events each thread delivers after its first
    tw              \* the timing wrapper: its main, its child and their inputs

vars ==
    <<output_file, file_lock, jvmti_enabled, stream, opened_name, file, writer,
      flushed, term, ended_by, fault, acquired, shutdown_seen, pc, local,
      filename, heap, double_free, checked, status, options, pid,
      little_endian, meta, todo, faults, early, later, tw>>

env == <<options, pid, little_endian, meta, todo, faults, early, later, tw>>
sink == <<output_file, stream, opened_name, file, writer, flushed>>
ghostHeap == <<heap, double_free>>

\* The locals of compiledMethodLoad and write_method_load_event; the other
\* handlers only use timestamp.
Locals0 ==
    [timestamp |-> [tv_sec |-> J64(0), tv_nsec |-> J64(0)],
     methods |-> <<>>, methods_count |-> 0, inline_records |-> NULL,
     i |-> 0, j |-> 0, current |-> 0, line |-> 0, nrec |-> 0,
     \* ghost: the failures <<query, result>> answered to lookups of this
     \* event that went on to return a record
     accepted |-> {}]

\* The timing wrapper before main is entered: its locals and its child.
\* status is main's local int, meaningful once assigned; wstatus is the wait
\* status the kernel holds for the ended child; ret is main's return value.
TimingIdle ==
    [pc |-> "main", argc |-> 1, sigchld |-> "default", command |-> 0,
     child |-> "none", wstatus |-> 0, exec_failed |-> FALSE,
     assigned |-> FALSE, status |-> 0, reported |-> FALSE, ret |-> -1]
\* The timing wrapper is not the program that runs
TimingOff == [TimingIdle EXCEPT !.pc = "off"]

InitState ==
    /\ output_file = NULL
    /\ file_lock = Unlocked
    /\ jvmti_enabled = {}
    /\ stream = "unopened"
    /\ opened_name = NULL
    /\ file = <<>>
    /\ writer = <<>>
    /\ flushed = 0
    /\ term = "running"
    /\ ended_by = 0
    /\ fault = "none"
    /\ acquired = [t \in AllThreads |-> 0]
    /\ shutdown_seen = {}
    /\ pc = [t \in AllThreads |->
               IF t = OnLoadThread THEN "onload"
               ELSE IF t = OnUnloadThread THEN "onunload" ELSE "idle"]
    /\ local = [t \in Threads |-> Locals0]
    /\ filename = NULL
    /\ heap = {}
    /\ double_free = FALSE
    /\ checked = {}
    /\ status = [t \in Threads |-> "pending"]

\* Concurrent events: every runtime thread delivers one of a few events (the
\* threads are interchangeable, so their events are drawn in order), and
\* the only failure is the runtime shutting down.
InitEvents ==
    /\ InitState
    /\ options = Ptr(<<"a", "%", "p">>)
    /\ pid = 7
    /\ little_endian = TRUE
    /\ meta = World1
    /\ todo \in {[t \in Threads |-> FewEvents[f[t]]] :
                    f \in {g \in [Threads -> DOMAIN FewEvents] :
                             \A t \in Threads : t = 1 \/ g[t - 1] <= g[t]}}
    /\ faults = {"shutdown"}
    /\ later = [t \in Threads |-> <<>>]
    /\ tw = TimingOff

\* The runtime delivers events as soon as their notification is enabled,
\* also while Agent_OnLoad is still running.
Init == InitEvents /\ early = TRUE

\* The runtime delivers the events to an open session.
InitRun == InitEvents /\ early = FALSE

\* One event: thread 1 delivers any event to an open session, on either kind
\* of host.
InitSeq ==
    /\ InitState
    /\ options = Ptr(<<"a">>)
    /\ pid = 7
    /\ little_endian \in BOOLEAN
    /\ meta = World1
    /\ todo \in {[t \in Threads |-> IF t = 1 THEN e ELSE NoEvent] : e \in AllEvents}
    /\ faults = {"io", "jvmti", "shutdown"}
    /\ later = [t \in Threads |-> <<>>]
    /\ tw = TimingOff
    /\ early = FALSE

\* One of a few events, with a runtime that may answer any of the five
\* queries of a lookup with any of the jvmtiError values the agent tests for.
InitQuery ==
    /\ InitState
    /\ options = Ptr(<<"a">>)
    /\ pid = 7
    /\ little_endian = TRUE
    /\ meta = World1
    /\ todo \in {[t \in Threads |-> IF t = 1 THEN FewEvents[k] ELSE NoEvent] :
                    k \in DOMAIN FewEvents}
    /\ faults = {"jvmti", "shutdown", "absent"}
    /\ later = [t \in Threads |-> <<>>]
    /\ tw = TimingOff
    /\ early = FALSE

\* One stub or one unload whose code address is any of WideValues, on either
\* kind of host, without failures.
InitWords ==
    /\ InitState
    /\ options = Ptr(<<"a">>)
    /\ pid = 7
    /\ little_endian \in BOOLEAN
    /\ meta = World1
    /\ todo \in {[t \in Threads |->
                     IF t = 1 THEN [e EXCEPT !.code_addr = v.bytes] ELSE NoEvent] :
                    e \in {Event(DynamicCodeGenerated, Ptr(<<115, 116>>), 1, <<195>>, <<>>),
                           Event(CompiledMethodUnload, NULL, 1, <<>>, <<>>)},
                    v \in WideValues}
    /\ faults = {}
    /\ later = [t \in Threads |-> <<>>]
    /\ tw = TimingOff
    /\ early = FALSE

\* Concurrent events as in Init, arriving as early as the runtime allows, on
\* a big-endian host; the runtime may shut down.
InitFair ==
    /\ InitState
    /\ options = Ptr(<<"a", "%", "p">>)
    /\ pid = 7
    /\ little_endian = FALSE
    /\ meta = World1
    /\ todo \in {[t \in Threads |-> FewEvents[f[t]]] :
                    f \in {g \in [Threads -> DOMAIN FewEvents] :
                             \A t \in Threads : t = 1 \/ g[t - 1] <= g[t]}}
    /\ faults = {"shutdown"}
    /\ later = [t \in Threads |-> <<>>]
    /\ tw = TimingOff
    /\ early = TRUE

\* Two events in a row on thread 1, each a compiled method without or with
\* inlined frames, and one event of any kind on thread 2, on an open session
\* of a big-endian host; the runtime may shut down.
InitTwice ==
    /\ InitState
    /\ options = Ptr(<<"a">>)
    /\ pid = 7
    /\ little_endian = FALSE
    /\ meta = World1
    /\ todo \in {[t \in Threads |->
                     IF t = 1 THEN FewEvents[k1]
                     ELSE IF t = 2 THEN FewEvents[k2] ELSE NoEvent] :
                    k1 \in {4, 5}, k2 \in 2..5}
    /\ later \in {[t \in Threads |-> IF t = 1 THEN <<FewEvents[k]>> ELSE <<>>] :
                     k \in {4, 5}}
    /\ tw = TimingOff
    /\ faults = {"shutdown"}
    /\ early = FALSE

\* Attach only: any option string and process id, no event.
InitOpen ==
    /\ InitState
    /\ options \in {NULL, Ptr(HelpShort), Ptr(HelpLong)} \cup {Ptr(s) : s \in Paths}
    /\ pid \in {7, 4242}
    /\ little_endian = TRUE
    /\ meta = World1
    /\ todo = [t \in Threads |-> NoEvent]
    /\ faults = {"io", "jvmti"}
    /\ later = [t \in Threads |-> <<>>]
    /\ tw = TimingOff
    /\ early = FALSE

\* ------------------------------------------------------------ step helpers
Running == term = "running"
goto(t, label) == pc' = [pc EXCEPT ![t] = label]

\* report_error: a diagnostic on stderr, then abort()
report_error(t, f) == term' = "aborted" /\ ended_by' = t /\ fault' = f
\* A dereference of NULL or another undefined operation: the process dies
crash(t) == term' = "crashed" /\ ended_by' = t /\ UNCHANGED fault

\* Faulty variant of lock_output_file: takes the mutex without waiting for
\* its owner
lock_output_file_unguarded(t) ==
    /\ file_lock' = t
    /\ acquired' = [acquired EXCEPT ![t] = @ + 1]
    /\ checked' = checked \ {t}

\* pthread_mutex_lock blocks until the mutex is free
lock_output_file(t) ==
    /\ file_lock = Unlocked
    /\ file_lock' = t
    /\ acquired' = [acquired EXCEPT ![t] = @ + 1]
    /\ checked' = checked \ {t}

unlock_output_file(t) ==
    /\ file_lock' = Unlocked
    /\ checked' = checked \ {t}
    /\ UNCHANGED acquired

\* Whether an I/O call succeeds
IoOutcomes == IF "io" \in faults THEN BOOLEAN ELSE {TRUE}

\* Thread t performs the write w on output_file and goes to label next.
\* The stream may report an I/O error on the first fwrite of w; a write
\* through a NULL or closed stream is undefined and crashes the process.
Emit(t, w, next) ==
    /\ UNCHANGED <<output_file, stream, opened_name, flushed>>
    /\ IF output_file = NULL \/ stream # "open"
       THEN /\ crash(t)
            /\ UNCHANGED <<file, writer, pc>>
       ELSE \E io \in IoOutcomes :
              IF ~io
              THEN /\ report_error(t, "io")
                   /\ UNCHANGED <<file, writer, pc>>
              ELSE /\ file' = file \o w.out
                   /\ writer' = writer \o [k \in 1..Len(w.out) |-> t]
                   /\ IF w.ok
                      THEN goto(t, next) /\ UNCHANGED <<term, ended_by, fault>>
                      ELSE report_error(t, fault) /\ UNCHANGED pc

\* fflush(output_file)
Flush(t, next) ==
    /\ flushed' = Len(file)
    /\ goto(t, next)
    /\ UNCHANGED <<output_file, stream, opened_name, file, writer, term, ended_by, fault>>

\* What a write or flush step leaves alone
notSink == <<file_lock, jvmti_enabled, local, filename, heap, double_free,
             checked, acquired, status, shutdown_seen, env>>
\* What a step that only moves a thread or ends the process leaves alone
notControl == <<output_file, file_lock, jvmti_enabled, stream, opened_name, file,
                writer, flushed, local, filename, heap, double_free,
                checked, acquired, status, shutdown_seen, env>>

\* get_timestamp: the capture clock read as a timespec
get_timestamp == [tv_sec |-> <<0, 0, 0, 0, 0, 1, 226, 64>>,
                  tv_nsec |-> <<0, 0, 0, 0, 59, 154, 201, 255>>]
\* The runtime's clock as GetTime reports it
JavaNanos == <<0, 0, 0, 1, 2, 3, 4, 5>>

\* ---------------------------------------------------------------- strings
RECURSIVE strstr_from(_, _, _)
strstr_from(haystack, needle, i) ==
    IF i + Len(needle) - 1 > Len(haystack) THEN 0
    ELSE IF SubSeq(haystack, i, i + Len(needle) - 1) = needle THEN i
    ELSE strstr_from(haystack, needle, i + 1)
\* strstr: the index of the first occurrence of needle, or 0 for NULL
strstr(haystack, needle) == strstr_from(haystack, needle, 1)

strncat(dest, src, n) == dest \o SubSeq(src, 1, IF n < Len(src) THEN n ELSE Len(src))
strcat(dest, src) == dest \o src

DigitChars == <<"0", "1", "2", "3", "4", "5", "6", "7", "8", "9">>
RECURSIVE snprintf_d(_)
\* snprintf(buffer, 32, "%d", n) for n >= 0
snprintf_d(n) ==
    IF n < 10 THEN <<DigitChars[n + 1]>>
    ELSE snprintf_d(n \div 10) \o <<DigitChars[(n % 10) + 1]>>

\* Faulty variant of ExpandFilename: resumes one character after the
\* placeholder's start instead of two
ExpandFilename_short_skip(opts, p) ==
    LET pid_location == strstr(opts, <<"%", "p">>)
    IN  IF pid_location # 0
        THEN LET buffer == snprintf_d(p)
                 name0 == strncat(<<>>, opts, pid_location - 1)
                 name1 == strcat(name0, buffer)
             IN  strcat(name1, SubSeq(opts, pid_location + 1, Len(opts)))
        ELSE opts

\* The file name Agent_OnLoad builds from its options
ExpandFilename(opts, p) ==
    LET pid_location == strstr(opts, <<"%", "p">>)
    IN  IF pid_location # 0
        THEN LET buffer == snprintf_d(p)
                 name0 == strncat(<<>>, opts, pid_location - 1)
                 name1 == strcat(name0, buffer)
             IN  strcat(name1, SubSeq(opts, pid_location + 2, Len(opts)))
        ELSE opts

\* ------------------------------------------------------------ Agent_OnLoad
\* usage: prints the message and calls exit(1)
usage(t) == term' = "exited" /\ ended_by' = t /\ UNCHANGED fault

OnLoad_options ==
    /\ Running /\ pc[OnLoadThread] = "onload"
    /\ IF options = NULL \/ Deref(options) \in {HelpShort, HelpLong}
       THEN usage(OnLoadThread) /\ UNCHANGED pc
       ELSE goto(OnLoadThread, "L_caps") /\ UNCHANGED <<term, ended_by, fault>>
    /\ UNCHANGED notControl

\* A call into the runtime that Agent_OnLoad treats as fatal when it fails
OnLoad_call(label, next) ==
    /\ Running /\ pc[OnLoadThread] = label
    /\ \E error \in {JVMTI_ERROR_NONE} \cup
                    (IF "jvmti" \in faults THEN {JVMTI_ERROR_OUT_OF_MEMORY} ELSE {}) :
         IF error # JVMTI_ERROR_NONE
         THEN report_error(OnLoadThread, "jvmti") /\ UNCHANGED pc
         ELSE goto(OnLoadThread, next) /\ UNCHANGED <<term, ended_by, fault>>

OnLoad_capabilities ==
    OnLoad_call("L_caps", "L_lock") /\ UNCHANGED notControl

\* Faulty variant of OnLoad_lock: Agent_OnLoad goes on without the lock
OnLoad_lock_skipped ==
    /\ Running /\ pc[OnLoadThread] = "L_lock"
    /\ goto(OnLoadThread, "L_callbacks")
    /\ UNCHANGED <<sink, file_lock, checked, acquired, jvmti_enabled, term, ended_by,
                   fault, local, filename, heap, double_free, status,
                   shutdown_seen, env>>

OnLoad_lock ==
    /\ Running /\ pc[OnLoadThread] = "L_lock"
    /\ lock_output_file(OnLoadThread)
    /\ goto(OnLoadThread, "L_callbacks")
    /\ UNCHANGED <<sink, jvmti_enabled, term, ended_by, fault, local, filename,
                   heap, double_free, status, shutdown_seen, env>>

OnLoad_callbacks ==
    OnLoad_call("L_callbacks", "L_enable_unload") /\ UNCHANGED notControl

SetEventNotificationMode(label, kind, next) ==
    /\ OnLoad_call(label, next)
    /\ jvmti_enabled' = IF term' = "running" THEN jvmti_enabled \cup {kind}
                        ELSE jvmti_enabled
    /\ UNCHANGED <<sink, file_lock, local, filename, heap, double_free,
                   checked, acquired, status, shutdown_seen, env>>

OnLoad_enable_unload ==
    SetEventNotificationMode("L_enable_unload", CompiledMethodUnload, "L_enable_load")
OnLoad_enable_load ==
    SetEventNotificationMode("L_enable_load", CompiledMethodLoad, "L_enable_dynamic")
OnLoad_enable_dynamic ==
    SetEventNotificationMode("L_enable_dynamic", DynamicCodeGenerated, "L_filename")

OnLoad_filename ==
    /\ Running /\ pc[OnLoadThread] = "L_filename"
    /\ filename' = Ptr(ExpandFilename(Deref(options), pid))
    /\ goto(OnLoadThread, "L_fopen")
    /\ UNCHANGED <<sink, file_lock, jvmti_enabled, term, ended_by, fault, local,
                   heap, double_free, checked, acquired, status, shutdown_seen, env>>

\* fopen(filename, "w"), which fails for the empty name and may fail for
\* any other, followed by the test of its result
OnLoad_fopen ==
    /\ Running /\ pc[OnLoadThread] = "L_fopen"
    /\ \E ok \in IoOutcomes :
         IF ok /\ Len(Deref(filename)) > 0
         THEN /\ output_file' = Ptr("stream")
              /\ stream' = "open"
              /\ opened_name' = filename
              /\ file' = <<>> /\ writer' = <<>> /\ flushed' = 0
              /\ goto(OnLoadThread, "L_hdr_filetag")
              /\ UNCHANGED <<term, ended_by, fault>>
         ELSE /\ report_error(OnLoadThread, IF ok THEN fault ELSE "io")
              /\ UNCHANGED <<sink, pc>>
    /\ checked' = checked \cup {OnLoadThread}
    /\ UNCHANGED acquired
    /\ UNCHANGED <<file_lock, jvmti_enabled, local, filename, heap,
                   double_free, status, shutdown_seen, env>>

\* write_file_header, one step per write
OnLoad_header(label, w, next) ==
    /\ Running /\ pc[OnLoadThread] = label
    /\ Emit(OnLoadThread, w, next)
    /\ UNCHANGED <<file_lock, jvmti_enabled, local, filename, heap, double_free,
                   checked, acquired, status, shutdown_seen, env>>

OnLoad_hdr_filetag ==
    OnLoad_header("L_hdr_filetag", write_or_fail(filetag, 8), "L_hdr_major")
OnLoad_hdr_major ==
    OnLoad_header("L_hdr_major", write_jint(MajorVersion, little_endian), "L_hdr_minor")
OnLoad_hdr_minor ==
    OnLoad_header("L_hdr_minor", write_jint(MinorVersion, little_endian), "L_hdr_arch")
OnLoad_hdr_arch ==
    OnLoad_header("L_hdr_arch", write_string(arch, little_endian), "L_hdr_gettime")
OnLoad_hdr_gettime ==
    OnLoad_call("L_hdr_gettime", "L_hdr_timestamp") /\ UNCHANGED notControl
OnLoad_hdr_timestamp ==
    OnLoad_header("L_hdr_timestamp", write_timestamp(get_timestamp, little_endian),
                  "L_hdr_nanos")
OnLoad_hdr_nanos ==
    OnLoad_header("L_hdr_nanos", write_unsigned_jlong(JavaNanos, little_endian), "L_flush")

OnLoad_flush ==
    /\ Running /\ pc[OnLoadThread] = "L_flush"
    /\ Flush(OnLoadThread, "L_unlock")
    /\ UNCHANGED notSink

OnLoad_unlock ==
    /\ Running /\ pc[OnLoadThread] = "L_unlock"
    /\ unlock_output_file(OnLoadThread)
    /\ goto(OnLoadThread, "L_done")
    /\ UNCHANGED <<sink, jvmti_enabled, term, ended_by, fault, local, filename,
                   heap, double_free, status, shutdown_seen, env>>

Agent_OnLoad ==
    \/ OnLoad_options \/ OnLoad_capabilities \/ OnLoad_lock \/ OnLoad_callbacks
    \/ OnLoad_enable_unload \/ OnLoad_enable_load \/ OnLoad_enable_dynamic
    \/ OnLoad_filename \/ OnLoad_fopen
    \/ OnLoad_hdr_filetag \/ OnLoad_hdr_major \/ OnLoad_hdr_minor \/ OnLoad_hdr_arch
    \/ OnLoad_hdr_gettime \/ OnLoad_hdr_timestamp \/ OnLoad_hdr_nanos
    \/ OnLoad_flush \/ OnLoad_unlock

\* ---------------------------------------------------------- Agent_OnUnload
\* The runtime calls Agent_OnUnload once, after Agent_OnLoad has returned.
OnUnload_lock ==
    /\ Running /\ pc[OnUnloadThread] = "onunload" /\ pc[OnLoadThread] = "L_done"
    /\ lock_output_file(OnUnloadThread)
    /\ goto(OnUnloadThread, "U_fclose")
    /\ UNCHANGED <<sink, jvmti_enabled, term, ended_by, fault, local, filename,
                   heap, double_free, status, shutdown_seen, env>>

\* fclose(output_file): flushes and closes; undefined on NULL or a closed stream
OnUnload_fclose ==
    /\ Running /\ pc[OnUnloadThread] = "U_fclose"
    /\ IF output_file = NULL \/ stream # "open"
       THEN /\ crash(OnUnloadThread)
            /\ UNCHANGED <<stream, flushed, pc>>
       ELSE /\ stream' = "closed"
            /\ flushed' = Len(file)
            /\ goto(OnUnloadThread, "U_null")
            /\ UNCHANGED <<term, ended_by, fault>>
    /\ UNCHANGED <<output_file, opened_name, file, writer, file_lock,
                   jvmti_enabled, local, filename, heap, double_free,
                   checked, acquired, status, shutdown_seen, env>>

\* Faulty variant of OnUnload_null: output_file keeps pointing at the closed
\* stream
OnUnload_null_kept ==
    /\ Running /\ pc[OnUnloadThread] = "U_null"
    /\ goto(OnUnloadThread, "U_unlock")
    /\ UNCHANGED <<sink, term, ended_by, fault, file_lock,
                   jvmti_enabled, local, filename, heap, double_free,
                   checked, acquired, status, shutdown_seen, env>>

OnUnload_null ==
    /\ Running /\ pc[OnUnloadThread] = "U_null"
    /\ output_file' = NULL
    /\ goto(OnUnloadThread, "U_unlock")
    /\ UNCHANGED <<stream, opened_name, file, writer, flushed, term, ended_by, fault, file_lock,
                   jvmti_enabled, local, filename, heap, double_free,
                   checked, acquired, status, shutdown_seen, env>>

OnUnload_unlock ==
    /\ Running /\ pc[OnUnloadThread] = "U_unlock"
    /\ unlock_output_file(OnUnloadThread)
    /\ goto(OnUnloadThread, "U_done")
    /\ UNCHANGED <<sink, jvmti_enabled, term, ended_by, fault, local, filename,
                   heap, double_free, status, shutdown_seen, env>>

Agent_OnUnload ==
    OnUnload_lock \/ OnUnload_fclose \/ OnUnload_null \/ OnUnload_unlock

\* ---------------------------------------------------------- event handlers
\* The session is open: Agent_OnLoad has returned and Agent_OnUnload has not
\* been called
SessionOpen == pc[OnLoadThread] = "L_done" /\ pc[OnUnloadThread] = "onunload"

\* Faulty variant of Invoke: the locals keep what an earlier call left in them
Invoke_stale(t, kind, entry) ==
    /\ Running /\ pc[t] = "idle"
    /\ todo[t].kind = kind /\ kind \in jvmti_enabled
    /\ early \/ SessionOpen
    /\ local' = [local EXCEPT ![t].timestamp = get_timestamp]
    /\ status' = [status EXCEPT ![t] = "running"]
    /\ goto(t, entry)
    /\ UNCHANGED shutdown_seen
    /\ UNCHANGED <<sink, file_lock, jvmti_enabled, term, ended_by, fault, filename, heap,
                   double_free, checked, acquired, env>>

\* The runtime invokes the callback of thread t's event. Every call has its
\* own locals, initialized as declared (inline_records = NULL,
\* methods = NULL, methods_count = 0 in compiledMethodLoad), and every
\* handler starts by reading the capture clock.
Invoke(t, kind, entry) ==
    /\ Running /\ pc[t] = "idle"
    /\ todo[t].kind = kind /\ kind \in jvmti_enabled
    /\ early \/ SessionOpen
    /\ local' = [local EXCEPT ![t] = [Locals0 EXCEPT !.timestamp = get_timestamp]]
    /\ status' = [status EXCEPT ![t] = "running"]
    /\ goto(t, entry)
    /\ UNCHANGED shutdown_seen
    /\ UNCHANGED <<sink, file_lock, jvmti_enabled, term, ended_by, fault, filename, heap,
                   double_free, checked, acquired, env>>

\* Faulty variant of HandlerLock: the handler does not wait for a mutex that
\* another thread holds
HandlerLock_unblocked(t, label, next) ==
    /\ Running /\ pc[t] = label
    /\ IF file_lock = Unlocked THEN lock_output_file(t)
       ELSE UNCHANGED <<file_lock, acquired, checked>>
    /\ goto(t, next)
    /\ UNCHANGED <<sink, jvmti_enabled, term, ended_by, fault, local, filename,
                   heap, double_free, status, shutdown_seen, env>>

HandlerLock(t, label, next) ==
    /\ Running /\ pc[t] = label
    /\ lock_output_file(t)
    /\ goto(t, next)
    /\ UNCHANGED <<sink, jvmti_enabled, term, ended_by, fault, local, filename,
                   heap, double_free, status, shutdown_seen, env>>

\* Faulty variant of HandlerCheck: the handler writes without testing output_file
HandlerCheck_unchecked(t, label, write, skip) ==
    /\ Running /\ pc[t] = label
    /\ goto(t, write)
    /\ UNCHANGED <<sink, file_lock, jvmti_enabled, term, ended_by, fault, local, filename,
                   heap, double_free, checked, acquired, status, shutdown_seen, env>>

\* if (output_file != NULL) { ... } after lock_output_file
HandlerCheck(t, label, write, skip) ==
    /\ Running /\ pc[t] = label
    /\ checked' = checked \cup {t}
    /\ UNCHANGED <<acquired, shutdown_seen>>
    /\ IF output_file # NULL
       THEN goto(t, write) /\ UNCHANGED status
       ELSE goto(t, skip) /\ status' = [status EXCEPT ![t] = "noop"]
    /\ UNCHANGED <<sink, file_lock, jvmti_enabled, term, ended_by, fault, local, filename,
                   heap, double_free, env>>

HandlerWrite(t, label, w, next) ==
    /\ Running /\ pc[t] = label
    /\ Emit(t, w, next)
    /\ UNCHANGED notSink

\* Faulty variant of HandlerFlush: the record is left in the stream's buffer
HandlerFlush_skipped(t, label, next) ==
    /\ Running /\ pc[t] = label
    /\ goto(t, next)
    /\ status' = [status EXCEPT ![t] = "written"]
    /\ UNCHANGED <<sink, file_lock, jvmti_enabled, term, ended_by, fault, local, filename,
                   heap, double_free, checked, acquired, shutdown_seen, env>>

HandlerFlush(t, label, next) ==
    /\ Running /\ pc[t] = label
    /\ Flush(t, next)
    /\ status' = [status EXCEPT ![t] = "written"]
    /\ UNCHANGED shutdown_seen
    /\ UNCHANGED <<file_lock, jvmti_enabled, local, filename, heap,
                   double_free, checked, acquired, env>>

\* Faulty variant of HandlerUnlock: the handler returns with the mutex locked
HandlerUnlock_kept(t, label, next) ==
    /\ Running /\ pc[t] = label
    /\ goto(t, next)
    /\ UNCHANGED <<sink, file_lock, jvmti_enabled, term, ended_by, fault, local,
                   filename, heap, double_free, checked, acquired, status,
                   shutdown_seen, env>>

HandlerUnlock(t, label, next) ==
    /\ Running /\ pc[t] = label
    /\ unlock_output_file(t)
    /\ goto(t, next)
    /\ UNCHANGED <<sink, jvmti_enabled, term, ended_by, fault, local, filename,
                   heap, double_free, status, shutdown_seen, env>>

\* compiledMethodUnload
cmu_invoke(t) == Invoke(t, CompiledMethodUnload, "cmu_lock")
cmu_lock(t) == HandlerLock(t, "cmu_lock", "cmu_check")
cmu_check(t) == HandlerCheck(t, "cmu_check", "cmu_tag", "cmu_unlock")
cmu_tag(t) ==
    HandlerWrite(t, "cmu_tag", write_jint(CompiledMethodUnloadTag, little_endian),
                 "cmu_timestamp")
cmu_timestamp(t) ==
    HandlerWrite(t, "cmu_timestamp", write_timestamp(local[t].timestamp, little_endian),
                 "cmu_addr")
cmu_addr(t) ==
    HandlerWrite(t, "cmu_addr", write_unsigned_jlong(todo[t].code_addr, little_endian),
                 "cmu_flush")
cmu_flush(t) == HandlerFlush(t, "cmu_flush", "cmu_unlock")
cmu_unlock(t) == HandlerUnlock(t, "cmu_unlock", "done")

compiledMethodUnload(t) ==
    \/ cmu_invoke(t) \/ cmu_lock(t) \/ cmu_check(t) \/ cmu_tag(t)
    \/ cmu_timestamp(t) \/ cmu_addr(t) \/ cmu_flush(t) \/ cmu_unlock(t)

\* dynamicCodeGenerated
dcg_invoke(t) == Invoke(t, DynamicCodeGenerated, "dcg_lock")
dcg_lock(t) == HandlerLock(t, "dcg_lock", "dcg_check")
dcg_check(t) == HandlerCheck(t, "dcg_check", "dcg_tag", "dcg_unlock")
dcg_tag(t) ==
    HandlerWrite(t, "dcg_tag", write_jint(DynamicCodeTag, little_endian), "dcg_timestamp")
dcg_timestamp(t) ==
    HandlerWrite(t, "dcg_timestamp", write_timestamp(local[t].timestamp, little_endian),
                 "dcg_name")
dcg_name(t) ==
    HandlerWrite(t, "dcg_name", write_string(todo[t].name, little_endian), "dcg_addr")
dcg_addr(t) ==
    HandlerWrite(t, "dcg_addr", write_unsigned_jlong(todo[t].code_addr, little_endian),
                 "dcg_size")
dcg_size(t) ==
    HandlerWrite(t, "dcg_size", write_jint(todo[t].code_size, little_endian), "dcg_code")
dcg_code(t) ==
    HandlerWrite(t, "dcg_code", write_or_fail(todo[t].code, todo[t].code_size),
                 "dcg_flush")
dcg_flush(t) == HandlerFlush(t, "dcg_flush", "dcg_unlock")
dcg_unlock(t) == HandlerUnlock(t, "dcg_unlock", "done")

dynamicCodeGenerated(t) ==
    \/ dcg_invoke(t) \/ dcg_lock(t) \/ dcg_check(t) \/ dcg_tag(t) \/ dcg_timestamp(t)
    \/ dcg_name(t) \/ dcg_addr(t) \/ dcg_size(t) \/ dcg_code(t) \/ dcg_flush(t)
    \/ dcg_unlock(t)

\* ------------------------------------------------------- the method cache
\* A MethodData as calloc returns it. addr identifies the allocation; the
\* next pointers are the order of the records in the list.
MethodData0(method, addr) ==
    [id |-> 0, method |-> method, source_file |-> NULL, method_name |-> NULL,
     method_signature |-> NULL, class_signature |-> NULL,
     line_number_table_count |-> 0, line_number_table |-> NULL, addr |-> addr]

AllocatedFields ==
    {"source_file", "method_name", "method_signature", "class_signature",
     "line_number_table"}

\* The allocations free_method releases: every non-NULL field, then the record
free_method(method) ==
    {<<method.addr, f>> : f \in {g \in AllocatedFields : method[g] # NULL}}
      \cup {<<method.addr, "record">>}

\* The allocations a record holds
Allocations(method) == free_method(method)

\* Faulty variant of check_method_error: JVMTI_ERROR_WRONG_PHASE is taken
\* for missing information, like JVMTI_ERROR_NATIVE_METHOD
check_method_error_lenient(result) ==
    IF /\ result # JVMTI_ERROR_NONE
       /\ result # JVMTI_ERROR_NATIVE_METHOD
       /\ result # JVMTI_ERROR_ABSENT_INFORMATION
       /\ result # JVMTI_ERROR_WRONG_PHASE
    THEN [ret |-> TRUE, free |-> FALSE, fatal |-> TRUE]
    ELSE [ret |-> FALSE, free |-> FALSE, fatal |-> FALSE]

\* Faulty variant of check_method_error: on JVMTI_ERROR_WRONG_PHASE the record
\* is abandoned without free_method
check_method_error_no_free(result) ==
    IF /\ result # JVMTI_ERROR_NONE
       /\ result # JVMTI_ERROR_NATIVE_METHOD
       /\ result # JVMTI_ERROR_ABSENT_INFORMATION
    THEN IF result = JVMTI_ERROR_WRONG_PHASE
         THEN [ret |-> TRUE, free |-> FALSE, fatal |-> FALSE]
         ELSE [ret |-> TRUE, free |-> FALSE, fatal |-> TRUE]
    ELSE [ret |-> FALSE, free |-> FALSE, fatal |-> FALSE]

\* check_method_error: ret is its return value, free whether it released the
\* record, fatal whether it reported the error and aborted.
check_method_error(result) ==
    IF /\ result # JVMTI_ERROR_NONE
       /\ result # JVMTI_ERROR_NATIVE_METHOD
       /\ result # JVMTI_ERROR_ABSENT_INFORMATION
    THEN IF result = JVMTI_ERROR_WRONG_PHASE
         THEN [ret |-> TRUE, free |-> TRUE, fatal |-> FALSE]
         ELSE [ret |-> TRUE, free |-> FALSE, fatal |-> TRUE]
    ELSE [ret |-> FALSE, free |-> FALSE, fatal |-> FALSE]

\* Failures the runtime may inject into one lookup: none, or query `at`
\* answers `error` instead of what the method's metadata says.
NoFailure == [at |-> 0, error |-> JVMTI_ERROR_NONE]
AnyError ==
    {JVMTI_ERROR_NONE, JVMTI_ERROR_NATIVE_METHOD, JVMTI_ERROR_ABSENT_INFORMATION,
     JVMTI_ERROR_WRONG_PHASE, JVMTI_ERROR_OUT_OF_MEMORY}

\* The index of the record for method in the list, or 0
RECURSIVE FindFrom(_, _, _)
FindFrom(methods, method, k) ==
    IF k > Len(methods) THEN 0
    ELSE IF methods[k].method = method THEN k
    ELSE FindFrom(methods, method, k + 1)

\* Faulty variant of LinkedRecord: the id is never assigned
LinkedRecord_unnumbered(methods, current) == current

\* The record as it is linked into the list: the head keeps the id 0 that
\* calloc gave it, any other gets current->id = last->id + 1.
LinkedRecord(methods, current) ==
    IF methods = <<>> THEN current
    ELSE [current EXCEPT !.id = methods[Len(methods)].id + 1]

\* lookup_method. info is the runtime's metadata of the method, fail the
\* failure injected, ub the answer to a query about the uninitialized jclass
\* left by a declaring-class query whose failure was not treated as one.
\* ret is the position of the record returned (0 for NULL), queries the
\* number of queries made and results the answers they got.
lookup_method(method, methods, methods_count, addr, info, fail, ub) ==
    LET hit == FindFrom(methods, method, 1)
        Res(q) == IF fail.at = q THEN fail.error ELSE info.res[q]
        c0 == MethodData0(method, addr)
        r1 == Res(1)
        c1 == IF r1 = JVMTI_ERROR_NONE
              THEN [c0 EXCEPT !.method_name = Ptr(info.method_name),
                             !.method_signature = Ptr(info.method_signature)]
              ELSE c0
        r2 == Res(2)
        class_ok == r2 = JVMTI_ERROR_NONE
        r3 == IF class_ok \/ fail.at = 3 THEN Res(3) ELSE ub
        c3 == IF r3 = JVMTI_ERROR_NONE
              THEN [c1 EXCEPT !.class_signature = Ptr(info.class_signature)]
              ELSE c1
        r4 == IF class_ok \/ fail.at = 4 THEN Res(4) ELSE ub
        c4 == IF r4 = JVMTI_ERROR_NONE
              THEN [c3 EXCEPT !.source_file = Ptr(info.source_file)]
              ELSE c3
        r5 == Res(5)
        c5 == IF r5 = JVMTI_ERROR_NONE
              THEN [c4 EXCEPT !.line_number_table_count = Len(info.line_number_table),
                             !.line_number_table = Ptr(info.line_number_table)]
              ELSE c4
        \* the queries in order, each with the record as it is when its
        \* result is checked
        stages == << <<r1, c1>>, <<r2, c1>>, <<r3, c3>>, <<r4, c4>>, <<r5, c5>> >>
        failed == {q \in 1..5 : check_method_error(stages[q][1]).ret}
        Give(ret, ms, n, allocs, frees, fatal, queries) ==
            [ret |-> ret, methods |-> ms, methods_count |-> n, allocs |-> allocs,
             frees |-> frees, fatal |-> fatal, queries |-> queries,
             results |-> {stages[q][1] : q \in 1..queries},
             answers |-> {<<q, stages[q][1]>> : q \in 1..queries}]
    IN  IF hit # 0
        THEN Give(hit, methods, methods_count, {}, {}, FALSE, 0)
        ELSE IF failed # {}
        THEN LET q == CHOOSE x \in failed : \A y \in failed : x <= y
                 e == check_method_error(stages[q][1])
                 current == stages[q][2]
             IN  Give(0, methods, methods_count, Allocations(current),
                      IF e.free THEN free_method(current) ELSE {}, e.fatal, q)
        ELSE LET current == LinkedRecord(methods, c5)
             IN  Give(Len(methods) + 1, Append(methods, current), methods_count + 1,
                      Allocations(current), {}, FALSE, 5)

\* The first frame at or after frame j of pc entry i, or <<0, 0>>
RECURSIVE NextFrame(_, _, _)
NextFrame(pcinfo, i, j) ==
    IF i > Len(pcinfo) THEN <<0, 0>>
    ELSE IF j > pcinfo[i].numstackframes THEN NextFrame(pcinfo, i + 1, 1)
    ELSE <<i, j>>

\* The first inline record of the compile_info chain from position k, or NULL
RECURSIVE FindInlineRecord(_, _)
FindInlineRecord(chain, k) ==
    IF k > Len(chain) THEN NULL
    ELSE IF chain[k].kind = JVMTI_CMLR_INLINE_INFO THEN Ptr(chain[k])
    ELSE FindInlineRecord(chain, k + 1)

\* ------------------------------------------------------ compiledMethodLoad
Failures ==
    {NoFailure} \cup
    {[at |-> q, error |-> e] :
        q \in 1..5,
        e \in (IF "shutdown" \in faults THEN {JVMTI_ERROR_WRONG_PHASE} ELSE {}) \cup
              (IF "jvmti" \in faults THEN {JVMTI_ERROR_OUT_OF_MEMORY} ELSE {}) \cup
              (IF "absent" \in faults
               THEN {JVMTI_ERROR_NATIVE_METHOD, JVMTI_ERROR_ABSENT_INFORMATION}
               ELSE {})}

\* The answers a query about an uninitialized jclass may get
UbAnswers(method, fail) ==
    IF (IF fail.at = 2 THEN fail.error ELSE meta[method].res[2]) = JVMTI_ERROR_NONE
    THEN {JVMTI_ERROR_NONE} ELSE AnyError

\* Thread t calls lookup_method with the runtime failing as in fail
Lookup(t, method, fail, ub) ==
    lookup_method(method, local[t].methods, local[t].methods_count,
                  <<t, local[t].nrec>>, meta[method], fail, ub)

\* The heap after a lookup that did not abort the process
HeapAfter(r) ==
    /\ heap' = (heap \cup r.allocs) \ r.frees
    /\ double_free' = (double_free \/ ~(r.frees \subseteq (heap \cup r.allocs)))

\* The threads that have been told the runtime is shutting down
Seen(t, r) ==
    IF JVMTI_ERROR_WRONG_PHASE \in r.results
    THEN shutdown_seen \cup {t} ELSE shutdown_seen

\* The locals after a successful lookup
Looked(t, r) ==
    [local[t] EXCEPT !.methods = r.methods, !.methods_count = r.methods_count,
                     !.nrec = IF r.queries > 0 THEN @ + 1 ELSE @,
                     !.accepted = IF r.ret = 0 THEN @
                                  ELSE @ \cup {a \in r.answers :
                                                  a[2] # JVMTI_ERROR_NONE}]

\* A lookup outside the lock. On success the handler goes on with the frame
\* `following` of inline_records, or to write_method_load_event when there
\* is none (<<0, 0>>); NULL sends the handler to its cleanup.
Resolve(t, label, method, inline_records, following) ==
    /\ Running /\ pc[t] = label
    /\ \E fail \in Failures : \E ub \in UbAnswers(method, fail) :
         LET r == Lookup(t, method, fail, ub)
         IN  IF r.fatal
             THEN /\ report_error(t, "jvmti")
                  /\ UNCHANGED <<pc, local, heap, double_free, status, shutdown_seen>>
             ELSE /\ HeapAfter(r)
                  /\ shutdown_seen' = Seen(t, r)
                  /\ UNCHANGED <<term, ended_by, fault>>
                  /\ IF r.ret = 0
                     THEN /\ goto(t, "cml_cleanup")
                          /\ status' = [status EXCEPT ![t] = "abandoned"]
                          /\ local' = [local EXCEPT ![t] = Looked(t, r)]
                     ELSE /\ goto(t, IF following = <<0, 0>>
                                      THEN "wml_lock" ELSE "cml_frames")
                          /\ local' = [local EXCEPT ![t] =
                                         [Looked(t, r) EXCEPT
                                            !.inline_records = inline_records,
                                            !.i = following[1], !.j = following[2]]]
                          /\ UNCHANGED status
    /\ UNCHANGED <<sink, file_lock, jvmti_enabled, filename, checked, acquired, env>>

cml_invoke(t) == Invoke(t, CompiledMethodLoad, "cml_primary")

\* The primary method's lookup; when it succeeds, the walk of the
\* compile_info chain to its first inline record and that record's first frame
cml_primary(t) ==
    LET inline_records == FindInlineRecord(todo[t].compile_info, 1)
        first == IF inline_records = NULL THEN <<0, 0>>
                 ELSE NextFrame(Deref(inline_records).pcinfo, 1, 1)
    IN  Resolve(t, "cml_primary", todo[t].method, inline_records, first)

\* Faulty variant of cml_frames: the methods of the inlined frames are not
\* looked up before write_method_load_event
cml_frames_skipped(t) ==
    /\ Running /\ pc[t] = "cml_frames"
    /\ goto(t, "wml_lock")
    /\ UNCHANGED <<sink, file_lock, jvmti_enabled, term, ended_by, fault, local,
                   filename, heap, double_free, checked, acquired, status,
                   shutdown_seen, env>>

\* The lookup of frame j of pc entry i, then on to the next frame
cml_frames(t) ==
    LET pcinfo == Deref(local[t].inline_records).pcinfo
        info == pcinfo[local[t].i]
        following == NextFrame(pcinfo, local[t].i, local[t].j + 1)
    IN  /\ Running /\ pc[t] = "cml_frames"
        /\ Resolve(t, "cml_frames", info.methods[local[t].j],
                   local[t].inline_records, following)

\* Release the method information that was collected
cml_cleanup(t) ==
    /\ Running /\ pc[t] = "cml_cleanup"
    /\ LET frees == UNION {free_method(local[t].methods[k]) :
                             k \in 1..Len(local[t].methods)}
       IN  /\ heap' = heap \ frees
           /\ double_free' = (double_free \/ ~(frees \subseteq heap))
    /\ local' = [local EXCEPT ![t].methods = <<>>]
    /\ goto(t, "done")
    /\ UNCHANGED <<sink, file_lock, jvmti_enabled, term, ended_by, fault, filename,
                   checked, acquired, status, shutdown_seen, env>>

\* ------------------------------------------------- write_method_load_event
\* A write that also updates the locals of the loops
WriteLoop(t, label, w, next, locals) ==
    /\ Running /\ pc[t] = label
    /\ Emit(t, w, next)
    /\ local' = [local EXCEPT ![t] = IF term' = "running" THEN locals ELSE @]
    /\ UNCHANGED <<file_lock, jvmti_enabled, filename, heap, double_free,
                   checked, acquired, status, shutdown_seen, env>>

wml_lock(t) == HandlerLock(t, "wml_lock", "wml_check")
wml_check(t) == HandlerCheck(t, "wml_check", "wml_tag", "wml_unlock")
wml_tag(t) ==
    HandlerWrite(t, "wml_tag", write_jint(CompiledMethodLoadTag, little_endian),
                 "wml_timestamp")
wml_timestamp(t) ==
    HandlerWrite(t, "wml_timestamp", write_timestamp(local[t].timestamp, little_endian),
                 "wml_addr")
wml_addr(t) ==
    HandlerWrite(t, "wml_addr", write_unsigned_jlong(todo[t].code_addr, little_endian),
                 "wml_size")
wml_size(t) ==
    HandlerWrite(t, "wml_size", write_jint(todo[t].code_size, little_endian), "wml_code")
wml_code(t) ==
    HandlerWrite(t, "wml_code", write_or_fail(todo[t].code, todo[t].code_size),
                 "wml_methods_tag")
wml_methods_tag(t) ==
    HandlerWrite(t, "wml_methods_tag", write_jint(MethodsTag, little_endian),
                 "wml_methods_count")
wml_methods_count(t) ==
    WriteLoop(t, "wml_methods_count",
              write_jint(local[t].methods_count, little_endian),
              IF local[t].methods # <<>> THEN "wml_class_signature" ELSE "wml_debug_tag",
              [local[t] EXCEPT !.current = 1])

\* The record the method loop is at
Current(t) == local[t].methods[local[t].current]
\* current = current->next
NextMethodLabel(t) ==
    IF local[t].current < Len(local[t].methods)
    THEN "wml_class_signature" ELSE "wml_debug_tag"
NextMethodLocals(t) == [local[t] EXCEPT !.current = @ + 1]

wml_class_signature(t) ==
    /\ Running /\ pc[t] = "wml_class_signature"
    /\ HandlerWrite(t, "wml_class_signature",
                    write_string(Current(t).class_signature, little_endian),
                    "wml_method_name")
wml_method_name(t) ==
    /\ Running /\ pc[t] = "wml_method_name"
    /\ HandlerWrite(t, "wml_method_name",
                    write_string(Current(t).method_name, little_endian),
                    "wml_method_signature")
wml_method_signature(t) ==
    /\ Running /\ pc[t] = "wml_method_signature"
    /\ HandlerWrite(t, "wml_method_signature",
                    write_string(Current(t).method_signature, little_endian),
                    "wml_source_file")
wml_source_file(t) ==
    /\ Running /\ pc[t] = "wml_source_file"
    /\ HandlerWrite(t, "wml_source_file",
                    write_string_or_null(Current(t).source_file, little_endian),
                    "wml_line_count")
wml_line_count(t) ==
    /\ Running /\ pc[t] = "wml_line_count"
    /\ IF Current(t).line_number_table_count > 0
       THEN WriteLoop(t, "wml_line_count",
                      write_jint(Current(t).line_number_table_count, little_endian),
                      "wml_line", [local[t] EXCEPT !.line = 1])
       ELSE WriteLoop(t, "wml_line_count",
                      write_jint(Current(t).line_number_table_count, little_endian),
                      NextMethodLabel(t), NextMethodLocals(t))
wml_line(t) ==
    /\ Running /\ pc[t] = "wml_line"
    /\ LET entry == Deref(Current(t).line_number_table)[local[t].line]
           w == Then(write_unsigned_jlong(entry.start_location, little_endian),
                     write_jint(entry.line_number, little_endian))
       IN  IF local[t].line < Current(t).line_number_table_count
           THEN WriteLoop(t, "wml_line", w, "wml_line",
                          [local[t] EXCEPT !.line = @ + 1])
           ELSE WriteLoop(t, "wml_line", w, NextMethodLabel(t), NextMethodLocals(t))

wml_debug_tag(t) ==
    HandlerWrite(t, "wml_debug_tag", write_jint(DebugInfoTag, little_endian),
                 IF local[t].inline_records # NULL THEN "wml_numpcs" ELSE "wml_zero")
\* Faulty variant of wml_zero: without inline records nothing follows the tag
wml_zero_omitted(t) ==
    /\ Running /\ pc[t] = "wml_zero"
    /\ goto(t, "wml_flush")
    /\ UNCHANGED notControl /\ UNCHANGED <<term, ended_by, fault>>

wml_zero(t) ==
    HandlerWrite(t, "wml_zero", write_jint(0, little_endian), "wml_flush")
wml_numpcs(t) ==
    /\ Running /\ pc[t] = "wml_numpcs"
    /\ LET numpcs == Deref(local[t].inline_records).numpcs
       IN  WriteLoop(t, "wml_numpcs", write_jint(numpcs, little_endian),
                     IF numpcs > 0 THEN "wml_pc" ELSE "wml_flush",
                     [local[t] EXCEPT !.i = 1])
\* i++ of the loop over the pc entries
NextPcLabel(t) ==
    IF local[t].i < Deref(local[t].inline_records).numpcs THEN "wml_pc" ELSE "wml_flush"
wml_pc(t) ==
    /\ Running /\ pc[t] = "wml_pc"
    /\ LET info == Deref(local[t].inline_records).pcinfo[local[t].i]
           w == Then(write_unsigned_jlong(info.pc, little_endian),
                     write_jint(info.numstackframes, little_endian))
       IN  IF info.numstackframes > 0
           THEN WriteLoop(t, "wml_pc", w, "wml_frame", [local[t] EXCEPT !.j = 1])
           ELSE WriteLoop(t, "wml_pc", w, NextPcLabel(t), [local[t] EXCEPT !.i = @ + 1])

\* lookup_method for frame j, then its id and bytecode index
wml_frame(t) ==
    /\ Running /\ pc[t] = "wml_frame"
    /\ LET info == Deref(local[t].inline_records).pcinfo[local[t].i]
           method == info.methods[local[t].j]
       IN  \E fail \in Failures : \E ub \in UbAnswers(method, fail) :
             LET r == Lookup(t, method, fail, ub)
             IN  IF r.fatal
                 THEN /\ report_error(t, "jvmti")
                      /\ UNCHANGED <<sink, pc, local, heap, double_free, shutdown_seen>>
                 ELSE IF r.ret = 0
                 THEN \* method->id through the NULL that lookup_method returned
                      /\ crash(t)
                      /\ HeapAfter(r)
                      /\ shutdown_seen' = Seen(t, r)
                      /\ UNCHANGED <<sink, pc, local>>
                 ELSE /\ HeapAfter(r)
                      /\ shutdown_seen' = Seen(t, r)
                      /\ Emit(t, Then(write_jint(r.methods[r.ret].id, little_endian),
                                      write_jint(info.bcis[local[t].j], little_endian)),
                              IF local[t].j < info.numstackframes THEN "wml_frame"
                              ELSE NextPcLabel(t))
                      /\ local' = [local EXCEPT ![t] =
                                     IF term' # "running" THEN @
                                     ELSE IF local[t].j < info.numstackframes
                                     THEN [Looked(t, r) EXCEPT !.j = @ + 1]
                                     ELSE [Looked(t, r) EXCEPT !.i = @ + 1]]
    /\ UNCHANGED <<file_lock, jvmti_enabled, filename, checked, acquired, status, env>>

wml_flush(t) == HandlerFlush(t, "wml_flush", "wml_unlock")
wml_unlock(t) == HandlerUnlock(t, "wml_unlock", "cml_cleanup")

write_method_load_event(t) ==
    \/ wml_lock(t) \/ wml_check(t) \/ wml_tag(t) \/ wml_timestamp(t) \/ wml_addr(t)
    \/ wml_size(t) \/ wml_code(t) \/ wml_methods_tag(t) \/ wml_methods_count(t)
    \/ wml_class_signature(t) \/ wml_method_name(t) \/ wml_method_signature(t)
    \/ wml_source_file(t) \/ wml_line_count(t) \/ wml_line(t) \/ wml_debug_tag(t)
    \/ wml_zero(t) \/ wml_numpcs(t) \/ wml_pc(t) \/ wml_frame(t) \/ wml_flush(t)
    \/ wml_unlock(t)

compiledMethodLoad(t) ==
    \/ cml_invoke(t) \/ cml_primary(t) \/ cml_frames(t)
    \/ write_method_load_event(t) \/ cml_cleanup(t)

\* ------------------------------------------------------- the specifications
Next ==
    \/ Agent_OnLoad
    \/ Agent_OnUnload
    \/ \E t \in Threads : compiledMethodUnload(t)
    \/ \E t \in Threads : dynamicCodeGenerated(t)
    \/ \E t \in Threads : compiledMethodLoad(t)

Spec == Init /\ [][Next]_vars
SpecRun == InitRun /\ [][Next]_vars
SpecSeq == InitSeq /\ [][Next]_vars

SpecQuery == InitQuery /\ [][Next]_vars

\* Fair scheduling: as long as some thread can take a step, one is taken.
\* Every step moves its thread forward, so no thread can run forever in
\* place of the others.
SpecFair == InitFair /\ [][Next]_vars /\ WF_vars(Next)

NextWords ==
    \/ Agent_OnLoad
    \/ Agent_OnUnload
    \/ \E t \in Threads : compiledMethodUnload(t)
    \/ \E t \in Threads : dynamicCodeGenerated(t)
SpecWords == InitWords /\ [][NextWords]_vars

\* The runtime delivers thread t's next event once the handler of the
\* previous one has returned
Redeliver(t) ==
    /\ Running /\ pc[t] = "done" /\ later[t] # <<>>
    /\ todo' = [todo EXCEPT ![t] = Head(later[t])]
    /\ later' = [later EXCEPT ![t] = Tail(later[t])]
    /\ status' = [status EXCEPT ![t] = "pending"]
    /\ goto(t, "idle")
    /\ UNCHANGED <<sink, file_lock, jvmti_enabled, term, ended_by, fault, local,
                   filename, heap, double_free, checked, acquired, shutdown_seen,
                   options, pid, little_endian, meta, faults, early, tw>>

NextTwice == Next \/ \E t \in Threads : Redeliver(t)
SpecTwice == InitTwice /\ [][NextTwice]_vars

NextOpen == Agent_OnLoad \/ Agent_OnUnload
SpecOpen == InitOpen /\ [][NextOpen]_vars

\* ------------------------------------------------------ the timing wrapper
\* Everything but tw: the agent, which the timing wrapper does not touch
agent ==
    <<output_file, file_lock, jvmti_enabled, stream, opened_name, file, writer,
      flushed, term, ended_by, fault, acquired, shutdown_seen, pc, local,
      filename, heap, double_free, checked, status, options, pid,
      little_endian, meta, todo, faults, early, later>>

\* The wait status of a child that called exit(code) or returned code from main
ExitedWith(code) == (code % 256) * 256
\* The wait status of a child killed by signal sig, with or without a core dump
KilledBy(sig, core) == sig + (IF core THEN 128 ELSE 0)
\* WIFEXITED and WEXITSTATUS of <sys/wait.h>
WIFEXITED(s) == s % 128 = 0
WEXITSTATUS(s) == (s \div 256) % 256

\* The ways the command ends once execvp has started it
Commands ==
    {ExitedWith(0), ExitedWith(1), ExitedWith(3), ExitedWith(255),
     KilledBy(9, FALSE), KilledBy(11, TRUE)}
\* Values an int that was never assigned may hold
StatusWords == Commands \cup {ExitedWith(7), KilledBy(15, FALSE)}

InitTiming ==
    /\ InitState
    /\ options = NULL /\ pid = 7 /\ little_endian = FALSE /\ meta = World1
    /\ todo = [t \in Threads |-> NoEvent]
    /\ faults = {} /\ early = FALSE
    /\ later = [t \in Threads |-> <<>>]
    /\ tw \in {[TimingIdle EXCEPT !.argc = a, !.sigchld = d, !.command = c] :
                 a \in 1..3, d \in {"default", "ignored"}, c \in Commands}

\* if (argc < 2) { usage; return 1; } clock_gettime(&start_time)
main_usage ==
    /\ tw.pc = "main"
    /\ tw' = IF tw.argc < 2 THEN [tw EXCEPT !.ret = 1, !.pc = "exited"]
             ELSE [tw EXCEPT !.pc = "fork"]
    /\ UNCHANGED agent

\* pid = fork(); if (pid == -1) { perror; return 1; }
main_fork ==
    /\ tw.pc = "fork"
    /\ \E forked \in BOOLEAN :
         tw' = IF forked THEN [tw EXCEPT !.child = "exec", !.pc = "waitpid"]
               ELSE [tw EXCEPT !.ret = 1, !.pc = "exited"]
    /\ UNCHANGED agent

\* The child: execvp(argv[1], &argv[1]); perror; return 1;
child_execvp ==
    /\ tw.child = "exec"
    /\ \E started \in BOOLEAN :
         tw' = IF started THEN [tw EXCEPT !.child = "running"]
               ELSE [tw EXCEPT !.child = "ended", !.wstatus = ExitedWith(1),
                                !.exec_failed = TRUE]
    /\ UNCHANGED agent

\* The command that replaced the child ends
child_ends ==
    /\ tw.child = "running"
    /\ tw' = [tw EXCEPT !.child = "ended", !.wstatus = tw.command]
    /\ UNCHANGED agent

\* waitpid(pid, &status, 0) returns when the child has terminated. Its
\* result is not tested: when SIGCHLD is ignored (a disposition that
\* survives exec) the child is reaped by the kernel and the call fails with
\* ECHILD, leaving status as it was. clock_gettime(&end_time) follows.
main_waitpid ==
    /\ tw.pc = "waitpid" /\ tw.child = "ended"
    /\ tw' = IF tw.sigchld = "default"
             THEN [tw EXCEPT !.status = tw.wstatus, !.assigned = TRUE, !.pc = "report"]
             ELSE [tw EXCEPT !.pc = "report"]
    /\ UNCHANGED agent

\* fprintf(stderr, "Wall-clock time: %.3f sec\n", elapsed)
main_report ==
    /\ tw.pc = "report"
    /\ tw' = [tw EXCEPT !.reported = TRUE, !.pc = "return"]
    /\ UNCHANGED agent

\* if (WIFEXITED(status)) return WEXITSTATUS(status); else return 1;
\* An int that was never assigned reads as any value.
main_return ==
    /\ tw.pc = "return"
    /\ \E s \in (IF tw.assigned THEN {tw.status} ELSE StatusWords) :
         tw' = [tw EXCEPT !.ret = IF WIFEXITED(s) THEN WEXITSTATUS(s) ELSE 1,
                          !.pc = "exited"]
    /\ UNCHANGED agent

NextTiming ==
    \/ main_usage \/ main_fork \/ child_execvp \/ child_ends
    \/ main_waitpid \/ main_report \/ main_return
SpecTiming == InitTiming /\ [][NextTiming]_vars

\* ------------------------------------------------- reading the file back
\* The file format is big-endian; the readers below decode bytes of the file
\* without reference to the encoder.
Fail == [ok |-> FALSE, next |-> 0, val |-> <<>>]
Got(v, next) == [ok |-> TRUE, next |-> next, val |-> v]

\* The n bytes of b from position p
ReadBytes(b, p, n) ==
    IF n >= 0 /\ p >= 1 /\ p + n - 1 <= Len(b)
    THEN Got(SubSeq(b, p, p + n - 1), p + n) ELSE Fail

\* A signed 32-bit integer, most significant byte first
ReadInt(b, p) ==
    LET r == ReadBytes(b, p, 4)
        u == (r.val[1] % 128) * 16777216 + r.val[2] * 65536 + r.val[3] * 256 + r.val[4]
    IN  IF ~r.ok THEN Fail
        ELSE Got(IF r.val[1] >= 128 THEN (u - 2147483647) - 1 ELSE u, r.next)

\* A length-prefixed string
ReadString(b, p) ==
    LET n == ReadInt(b, p)
    IN  IF n.ok /\ n.val >= 0 THEN ReadBytes(b, n.next, n.val) ELSE Fail

\* A nullable string: NULL for the length -1, otherwise a pointer to the bytes
ReadNullable(b, p) ==
    LET n == ReadInt(b, p)
        str == ReadString(b, p)
    IN  IF ~n.ok THEN Fail
        ELSE IF n.val = -1 THEN Got(NULL, n.next)
        ELSE IF str.ok THEN Got(Ptr(str.val), str.next) ELSE Fail

RECURSIVE ReadLines(_, _, _)
\* n line-number entries
ReadLines(b, p, n) ==
    IF n < 0 THEN Fail
    ELSE IF n = 0 THEN Got(<<>>, p)
    ELSE LET loc == ReadBytes(b, p, 8)
             num == ReadInt(b, loc.next)
             rest == ReadLines(b, num.next, n - 1)
         IN  IF loc.ok /\ num.ok /\ rest.ok
             THEN Got(<<[start_location |-> loc.val, line_number |-> num.val]>>
                        \o rest.val, rest.next)
             ELSE Fail

RECURSIVE ReadMethods(_, _, _)
\* n entries of the method table; source_span is the number of bytes the
\* source file field occupies
ReadMethods(b, p, n) ==
    IF n < 0 THEN Fail
    ELSE IF n = 0 THEN Got(<<>>, p)
    ELSE LET cs == ReadString(b, p)
             mn == ReadString(b, cs.next)
             ms == ReadString(b, mn.next)
             sf == ReadNullable(b, ms.next)
             lc == ReadInt(b, sf.next)
             ls == ReadLines(b, lc.next, lc.val)
             rest == ReadMethods(b, ls.next, n - 1)
         IN  IF cs.ok /\ mn.ok /\ ms.ok /\ sf.ok /\ lc.ok /\ ls.ok /\ rest.ok
             THEN Got(<<[class_signature |-> cs.val, method_name |-> mn.val,
                         method_signature |-> ms.val, source_file |-> sf.val,
                         source_span |-> sf.next - ms.next,
                         line_count |-> lc.val, lines |-> ls.val]>> \o rest.val,
                      rest.next)
             ELSE Fail

RECURSIVE ReadFrames(_, _, _)
\* n frames: method id and bytecode index
ReadFrames(b, p, n) ==
    IF n < 0 THEN Fail
    ELSE IF n = 0 THEN Got(<<>>, p)
    ELSE LET id == ReadInt(b, p)
             bci == ReadInt(b, id.next)
             rest == ReadFrames(b, bci.next, n - 1)
         IN  IF id.ok /\ bci.ok /\ rest.ok
             THEN Got(<<[id |-> id.val, bci |-> bci.val]>> \o rest.val, rest.next)
             ELSE Fail

RECURSIVE ReadPcs(_, _, _)
\* n pc entries of the debug info
ReadPcs(b, p, n) ==
    IF n < 0 THEN Fail
    ELSE IF n = 0 THEN Got(<<>>, p)
    ELSE LET addr == ReadBytes(b, p, 8)
             nf == ReadInt(b, addr.next)
             fs == ReadFrames(b, nf.next, nf.val)
             rest == ReadPcs(b, fs.next, n - 1)
         IN  IF addr.ok /\ nf.ok /\ fs.ok /\ rest.ok
             THEN Got(<<[pc |-> addr.val, numstackframes |-> nf.val,
                         frames |-> fs.val]>> \o rest.val, rest.next)
             ELSE Fail

\* Whether the four bytes at p spell the tag
HasTag(b, p, tag) == ReadBytes(b, p, 4).ok /\ ReadBytes(b, p, 4).val = tag

\* A DYNC record at the start of b
ReadDYNC(b) ==
    LET sec == ReadBytes(b, 5, 8)
        nsec == ReadBytes(b, sec.next, 8)
        name == ReadString(b, nsec.next)
        addr == ReadBytes(b, name.next, 8)
        size == ReadInt(b, addr.next)
        code == ReadBytes(b, size.next, size.val)
    IN  IF /\ HasTag(b, 1, <<68, 89, 78, 67>>)
           /\ sec.ok /\ nsec.ok /\ name.ok /\ addr.ok /\ size.ok /\ code.ok
        THEN [ok |-> TRUE, next |-> code.next, tv_sec |-> sec.val, tv_nsec |-> nsec.val,
              name |-> name.val, code_addr |-> addr.val, code_size |-> size.val,
              code |-> code.val]
        ELSE [ok |-> FALSE]

\* A CMUT record at the start of b
ReadCMUT(b) ==
    LET sec == ReadBytes(b, 5, 8)
        nsec == ReadBytes(b, sec.next, 8)
        addr == ReadBytes(b, nsec.next, 8)
    IN  IF HasTag(b, 1, <<67, 77, 85, 84>>) /\ sec.ok /\ nsec.ok /\ addr.ok
        THEN [ok |-> TRUE, next |-> addr.next, tv_sec |-> sec.val, tv_nsec |-> nsec.val,
              code_addr |-> addr.val]
        ELSE [ok |-> FALSE]

\* A CMLT record at the start of b
ReadCMLT(b) ==
    LET sec == ReadBytes(b, 5, 8)
        nsec == ReadBytes(b, sec.next, 8)
        addr == ReadBytes(b, nsec.next, 8)
        size == ReadInt(b, addr.next)
        code == ReadBytes(b, size.next, size.val)
        count == ReadInt(b, code.next + 4)
        methods == ReadMethods(b, count.next, count.val)
        numpcs == ReadInt(b, methods.next + 4)
        pcs == ReadPcs(b, numpcs.next, numpcs.val)
    IN  IF /\ HasTag(b, 1, <<67, 77, 76, 84>>)
           /\ sec.ok /\ nsec.ok /\ addr.ok /\ size.ok /\ code.ok
           /\ HasTag(b, code.next, <<77, 84, 72, 84>>)
           /\ count.ok /\ methods.ok
           /\ HasTag(b, methods.next, <<68, 69, 66, 73>>)
           /\ numpcs.ok /\ pcs.ok
        THEN [ok |-> TRUE, next |-> pcs.next, tv_sec |-> sec.val, tv_nsec |-> nsec.val,
              code_addr |-> addr.val, code_size |-> size.val, code |-> code.val,
              methods_count |-> count.val, methods |-> methods.val,
              numpcs |-> numpcs.val, pcs |-> pcs.val]
        ELSE [ok |-> FALSE]

\* ---------------------------------------------- what an event should leave
\* The positions of the file that thread t wrote
Positions(t) == {i \in 1..Len(writer) : writer[i] = t}
\* The positions where a run of t's bytes starts
RunStarts(t) == {i \in Positions(t) : i = 1 \/ writer[i - 1] # t}
\* The bytes of thread t are one uninterrupted stretch of the file
Contiguous(t) == Cardinality(RunStarts(t)) <= 1
\* The first stretch of bytes thread t wrote
Written(t) ==
    IF Positions(t) = {} THEN <<>>
    ELSE LET first == CHOOSE i \in RunStarts(t) : \A j \in RunStarts(t) : i <= j
             stop == CHOOSE i \in first..Len(writer) :
                        /\ \A j \in first..i : writer[j] = t
                        /\ (i = Len(writer) \/ writer[i + 1] # t)
         IN  SubSeq(file, first, stop)

\* The header of a capture taken with the model's clock readings
ExpectedHeader ==
    <<74, 86, 77, 84, 73, 65, 83, 77,  0, 0, 0, 1,  0, 0, 0, 0,
      0, 0, 0, 5,  97, 109, 100, 54, 52>>
      \o <<0, 0, 0, 0, 0, 1, 226, 64>> \o <<0, 0, 0, 0, 59, 154, 201, 255>>
      \o <<0, 0, 0, 1, 2, 3, 4, 5>>

\* The pc entries of the first inline record of an event's compile_info
InlineInfoOf(e) ==
    LET K == {k \in 1..Len(e.compile_info) :
                e.compile_info[k].kind = JVMTI_CMLR_INLINE_INFO}
    IN  IF K = {} THEN <<>>
        ELSE e.compile_info[CHOOSE k \in K : \A l \in K : k <= l].pcinfo

RECURSIVE FrameMethods(_)
\* The method handles of all frames of all pc entries, in order
FrameMethods(pcinfo) ==
    IF pcinfo = <<>> THEN <<>>
    ELSE Head(pcinfo).methods \o FrameMethods(Tail(pcinfo))

RECURSIVE FirstSeen(_)
\* s without the repetitions of an element after its first occurrence
FirstSeen(s) ==
    IF s = <<>> THEN <<>>
    ELSE LET init == FirstSeen(SubSeq(s, 1, Len(s) - 1))
             x == s[Len(s)]
         IN  IF \E k \in 1..Len(init) : init[k] = x THEN init ELSE Append(init, x)

\* The distinct method handles of a compiled-method-load event in the order
\* the event mentions them: the primary method, then the frames
SeenOrder(e) == FirstSeen(<<e.method>> \o FrameMethods(InlineInfoOf(e)))

\* The position of x in s
IndexOf(s, x) == CHOOSE k \in 1..Len(s) : s[k] = x

\* Thread t's bytes are exactly one record of its event
WroteItsRecord(t) ==
    LET e == todo[t]
        b == Written(t)
        d == ReadDYNC(b)
        u == ReadCMUT(b)
        l == ReadCMLT(b)
    IN  /\ Contiguous(t)
        /\ CASE e.kind = DynamicCodeGenerated ->
                  /\ d.ok /\ d.next = Len(b) + 1
                  /\ d.name = Deref(e.name) /\ d.code_addr = e.code_addr
                  /\ d.code_size = e.code_size /\ d.code = e.code
             [] e.kind = CompiledMethodUnload ->
                  u.ok /\ u.next = Len(b) + 1 /\ u.code_addr = e.code_addr
             [] e.kind = CompiledMethodLoad ->
                  /\ l.ok /\ l.next = Len(b) + 1
                  /\ l.code_addr = e.code_addr /\ l.code = e.code
                  /\ l.methods_count = Len(l.methods)
                  /\ l.numpcs = Len(InlineInfoOf(e))
             [] OTHER -> FALSE

\* Thread t's handler has returned
Returned(t) == pc[t] = "done"

\* ------------------------------------------------------------------ claims
\* C1 as stated: once all N handlers, invoked on the open session, have
\* returned while it is still open, the file holds N complete records, one
\* per handler, none torn.
C1_AllRecordsWritten ==
    (SessionOpen /\ \A t \in Threads : Returned(t)) =>
        \A t \in Threads : WroteItsRecord(t)

\* C1: in every state the bytes of each handler are one uninterrupted stretch
\* of the file (no byte of another writer lies between them), and a handler
\* that has returned has left exactly one complete record of its event, or no
\* byte at all when it was abandoned on JVMTI_ERROR_WRONG_PHASE or found the
\* sink closed. The number of records is the number of handlers not abandoned.
C1_RecordsWhole ==
    \A t \in Threads :
        /\ Contiguous(t)
        /\ Returned(t) =>
             /\ status[t] \in {"written", "abandoned", "noop"}
             /\ status[t] = "written" => WroteItsRecord(t)
             /\ status[t] # "written" => Positions(t) = {}
             /\ status[t] = "abandoned" =>
                  t \in shutdown_seen /\ todo[t].kind = CompiledMethodLoad
             /\ status[t] = "noop" => acquired[OnUnloadThread] > 0

\* C1 happens: all handlers have returned, each with its record written, and
\* they were of different kinds.
C1_Witness ==
    /\ SessionOpen
    /\ \A t \in Threads : Returned(t) /\ status[t] = "written"
    /\ \E t \in Threads : todo[t].kind = CompiledMethodLoad
    /\ \E t \in Threads : todo[t].kind = DynamicCodeGenerated

\* C2: a compiledMethodLoad event one of whose metadata queries answered
\* JVMTI_ERROR_WRONG_PHASE never takes the writer lock, never adds a byte to
\* the file, does not end the process, and unwinds to its cleanup and return.
C2_AbandonedSilently ==
    \A t \in shutdown_seen :
        /\ acquired[t] = 0 /\ file_lock # t
        /\ Positions(t) = {}
        /\ ended_by # t
        /\ status[t] = "abandoned"
        /\ pc[t] \in {"cml_cleanup", "done"}

\* C2 happens: the query that answered WRONG_PHASE was for an inline frame,
\* after the primary method had been resolved, and the handler has returned
\* leaving the file at its header.
C2_Witness ==
    \E t \in shutdown_seen :
        /\ Returned(t) /\ local[t].nrec >= 2
        /\ file = ExpectedHeader

\* C3: the records of the method list carry the ids 0, 1, 2, ... in the order
\* the event first mentions their methods; in a written CMLT record the
\* method table lists the distinct methods in that order, and every method id
\* of the debug info is at least 0, below the method count written before it,
\* and is the table position of the frame's method.
C3_MethodIds ==
    \A t \in Threads :
        LET e == todo[t]
            order == SeenOrder(e)
            info == InlineInfoOf(e)
            r == ReadCMLT(Written(t))
        IN  /\ \A k \in 1..Len(local[t].methods) :
                 /\ local[t].methods[k].id = k - 1
                 /\ k <= Len(order) /\ local[t].methods[k].method = order[k]
            /\ (e.kind = CompiledMethodLoad /\ status[t] = "written") =>
                 /\ r.ok
                 /\ r.methods_count = Len(order) /\ Len(r.methods) = Len(order)
                 /\ \A k \in 1..Len(order) :
                      r.methods[k].method_name = meta[order[k]].method_name
                 /\ Len(r.pcs) = Len(info)
                 /\ \A i \in 1..Len(info) :
                      /\ Len(r.pcs[i].frames) = info[i].numstackframes
                      /\ \A j \in 1..info[i].numstackframes :
                           LET id == r.pcs[i].frames[j].id
                           IN  /\ id >= 0 /\ id < r.methods_count
                               /\ order[id + 1] = info[i].methods[j]
                               /\ r.pcs[i].frames[j].bci = info[i].bcis[j]

\* C3 happens: a written CMLT record with several methods, whose frames
\* mention a method more than once and refer to the last table entry.
C3_Witness ==
    \E t \in Threads :
        LET r == ReadCMLT(Written(t))
        IN  /\ todo[t].kind = CompiledMethodLoad /\ status[t] = "written"
            /\ r.ok /\ r.methods_count >= 2
            /\ Len(FrameMethods(InlineInfoOf(todo[t]))) >= r.methods_count
            /\ \E i \in 1..Len(r.pcs) : \E j \in 1..Len(r.pcs[i].frames) :
                 r.pcs[i].frames[j].id = r.methods_count - 1

\* C4: once Agent_OnUnload has closed the stream no step changes the file,
\* flushes it or ends the process; every handler's bytes in the closed file
\* are one complete record (a handler that took the lock before the close
\* finished first); and a handler that found the sink NULL wrote nothing,
\* raised no error and is releasing the lock or has returned.
C4_NothingAfterClose ==
    /\ [](\A t \in Threads :
            /\ stream = "closed" =>
                 \/ Positions(t) = {}
                 \/ status[t] = "written" /\ WroteItsRecord(t)
            /\ status[t] = "noop" =>
                 /\ Positions(t) = {}
                 /\ ended_by # t
                 /\ stream = "closed"
                 /\ pc[t] \in {"cmu_unlock", "dcg_unlock", "wml_unlock",
                               "cml_cleanup", "done"})
    /\ [][stream = "closed" =>
            /\ file' = file /\ writer' = writer /\ flushed' = flushed
            /\ term' = "running"]_vars

\* C4 happens: the stream is closed, one handler wrote its record before the
\* close and another took the lock after it and returned without writing.
C4_Witness ==
    /\ stream = "closed"
    /\ \E t \in Threads : status[t] = "noop" /\ Returned(t)
    /\ \E t \in Threads : status[t] = "written" /\ Returned(t)

\* C5: the file starts with the header and only Agent_OnLoad writes it: the
\* bytes of Agent_OnLoad are exactly the leading ones and spell the header,
\* a record byte exists only after the whole header is written and flushed,
\* and Agent_OnLoad holds the lock whenever a callback is enabled or the
\* sink exists and it has not yet released the lock after its flush.
C5_HeaderFirst ==
    LET n == Len(ExpectedHeader)
        m == IF Len(file) < n THEN Len(file) ELSE n
    IN  /\ \A i \in 1..Len(file) : (writer[i] = OnLoadThread) <=> (i <= n)
        /\ SubSeq(file, 1, m) = SubSeq(ExpectedHeader, 1, m)
        /\ (\E t \in Threads : Positions(t) # {}) => Len(file) >= n /\ flushed >= n
        /\ ((jvmti_enabled # {} \/ output_file # NULL) /\ pc[OnLoadThread] # "L_done")
              => file_lock = OnLoadThread
        /\ pc[OnLoadThread] = "L_done" => Len(file) >= n /\ flushed >= n
        /\ \A t \in Threads :
             (acquired[t] > 0 /\ status[t] # "noop") =>
                 pc[OnLoadThread] = "L_done" /\ flushed >= n

\* C5 happens: a handler has been invoked and waits for the lock while
\* Agent_OnLoad is in the middle of writing the header.
C5_Witness ==
    /\ pc[OnLoadThread] = "L_hdr_arch"
    /\ \E t \in Threads : pc[t] \in {"cmu_lock", "dcg_lock", "wml_lock"}

\* Control points at which a thread writes through, flushes or closes the sink
HeaderSteps ==
    {"L_hdr_filetag", "L_hdr_major", "L_hdr_minor", "L_hdr_arch",
     "L_hdr_timestamp", "L_hdr_nanos", "L_flush"}
RecordSteps ==
    {"cmu_tag", "cmu_timestamp", "cmu_addr", "cmu_flush",
     "dcg_tag", "dcg_timestamp", "dcg_name", "dcg_addr", "dcg_size", "dcg_code",
     "dcg_flush",
     "wml_tag", "wml_timestamp", "wml_addr", "wml_size", "wml_code",
     "wml_methods_tag", "wml_methods_count", "wml_class_signature",
     "wml_method_name", "wml_method_signature", "wml_source_file",
     "wml_line_count", "wml_line", "wml_debug_tag", "wml_zero", "wml_numpcs",
     "wml_pc", "wml_frame", "wml_flush"}
DerefsSink == HeaderSteps \cup RecordSteps \cup {"U_fclose"}
\* Control points at which a thread reads or assigns the sink reference itself
TouchesSink == DerefsSink \cup {"cmu_check", "dcg_check", "wml_check", "L_fopen", "U_null"}

\* C6 as stated: a thread about to read, assign, write through, flush or
\* close the sink holds the writer lock, and a thread about to dereference it
\* has tested it for NULL since it took the lock.
C6_LockedAndChecked ==
    \A t \in AllThreads :
        /\ pc[t] \in TouchesSink => file_lock = t
        /\ pc[t] \in DerefsSink => t \in checked

\* C7: whenever no thread holds the lock and the sink is open every byte of
\* the file has been flushed, and in every state the bytes not yet flushed
\* were written by the thread that holds the lock (its record in progress).
C7_FlushedWhenUnlocked ==
    /\ flushed <= Len(file)
    /\ (file_lock = Unlocked /\ output_file # NULL /\ stream = "open")
          => flushed = Len(file)
    /\ \A i \in (flushed + 1)..Len(file) : writer[i] = file_lock
    /\ \A t \in Threads :
         (status[t] = "written" /\ file_lock # t) => \A i \in Positions(t) : i <= flushed

\* C7 happens: the lock is free on an open sink whose file holds the header
\* and a record, while another handler has still to write.
C7_Witness ==
    /\ file_lock = Unlocked /\ stream = "open" /\ output_file # NULL
    /\ \E t \in Threads : status[t] = "written"
    /\ \E t \in Threads : status[t] = "running" /\ Positions(t) = {}

\* C8 as stated: a dynamicCodeGenerated event with a name of L >= 0 bytes and
\* S >= 0 bytes of code, delivered to the open session, does not end the
\* process unless the environment failed an I/O call, and once it has
\* returned from an open sink the file holds 4 + 16 + 4 + L + 8 + 4 + S more
\* bytes: the tag DYNC, the timestamp, the name, the address, S and the code.
C8_DynamicCodeRecord ==
    \A t \in Threads :
        todo[t].kind = DynamicCodeGenerated =>
            LET e == todo[t]
                b == Written(t)
                r == ReadDYNC(b)
            IN  /\ ended_by = t => fault # "none"
                /\ (Returned(t) /\ status[t] = "written") =>
                     /\ Len(b) = 4 + 16 + 4 + Len(Deref(e.name)) + 8 + 4 + e.code_size
                     /\ r.ok /\ r.next = Len(b) + 1
                     /\ r.name = Deref(e.name) /\ r.code_addr = e.code_addr
                     /\ r.code_size = e.code_size /\ r.code = e.code

\* C9: in a written CMLT record the source file of a method without one is
\* the length -1 alone (4 bytes), an empty name the length 0 alone, and a
\* name of n bytes the length n and those n bytes; a method without a line
\* number table has the count 0 and no entry, any other its entries; the three
\* encodings of a source file differ; and no handler ends the process at a
\* lookup or at these fields unless the environment failed a call.
C9_SourceFileAndLines ==
    /\ \A t \in Threads :
         LET e == todo[t]
             order == SeenOrder(e)
             r == ReadCMLT(Written(t))
         IN  /\ (e.kind = CompiledMethodLoad /\ status[t] = "written") =>
                  /\ r.ok /\ Len(r.methods) = Len(order)
                  /\ \A k \in 1..Len(order) :
                       LET info == meta[order[k]]
                           entry == r.methods[k]
                       IN  /\ IF info.res[4] # JVMTI_ERROR_NONE
                              THEN entry.source_file = NULL /\ entry.source_span = 4
                              ELSE /\ entry.source_file = Ptr(info.source_file)
                                   /\ entry.source_span = 4 + Len(info.source_file)
                           /\ IF info.res[5] # JVMTI_ERROR_NONE
                              THEN entry.line_count = 0 /\ entry.lines = <<>>
                              ELSE /\ entry.line_count = Len(info.line_number_table)
                                   /\ entry.lines = info.line_number_table
             /\ (ended_by = t /\ fault = "none") =>
                  pc[t] \notin {"cml_primary", "cml_frames", "wml_source_file",
                                "wml_line_count", "wml_line"}
    /\ LET enc(str) == write_string_or_null(str, little_endian)
       IN  /\ enc(NULL).ok /\ enc(NULL).out = <<255, 255, 255, 255>>
           /\ enc(Ptr(<<>>)).ok /\ enc(Ptr(<<>>)).out = <<0, 0, 0, 0>>
           /\ \A m \in Methods :
                LET src == meta[m].source_file
                IN  src # <<>> =>
                      /\ enc(Ptr(src)).ok
                      /\ enc(Ptr(src)).out \notin {enc(NULL).out, enc(Ptr(<<>>)).out}
                      /\ SubSeq(enc(Ptr(src)).out, 5, Len(enc(Ptr(src)).out)) = src

\* C9 happens: one written CMLT record whose method table has a method
\* without source file and line table, one with an empty source file name
\* and an empty table, and one with both.
C9_Witness ==
    \E t \in Threads :
        LET r == ReadCMLT(Written(t))
        IN  /\ todo[t].kind = CompiledMethodLoad /\ status[t] = "written" /\ Returned(t)
            /\ r.ok
            /\ \E k \in 1..Len(r.methods) : r.methods[k].source_file = NULL
            /\ \E k \in 1..Len(r.methods) : r.methods[k].source_file = Ptr(<<>>)
            /\ \E k \in 1..Len(r.methods) :
                 r.methods[k].source_span > 4 /\ r.methods[k].line_count > 0

\* The value of a decimal digit character, or -1
DigitValue(c) ==
    CASE c = "0" -> 0 [] c = "1" -> 1 [] c = "2" -> 2 [] c = "3" -> 3 [] c = "4" -> 4
      [] c = "5" -> 5 [] c = "6" -> 6 [] c = "7" -> 7 [] c = "8" -> 8 [] c = "9" -> 9
      [] OTHER -> -1
RECURSIVE DecimalValue(_)
DecimalValue(str) ==
    IF str = <<>> THEN 0
    ELSE 10 * DecimalValue(SubSeq(str, 1, Len(str) - 1)) + DigitValue(str[Len(str)])
\* str is the decimal numeral of a number, without leading zeros
IsDecimal(str) ==
    /\ str # <<>>
    /\ \A k \in 1..Len(str) : DigitValue(str[k]) >= 0
    /\ Len(str) > 1 => str[1] # "0"

\* C10: the name of the file Agent_OnLoad opened is its options string with
\* the first "%p" replaced by the decimal process id, everything before and
\* after it (later occurrences included) unchanged; options without "%p" are
\* the name as they are.
C10_PidPlaceholder ==
    opened_name # NULL =>
        LET o == Deref(options)
            n == Deref(opened_name)
            P == {i \in 1..(Len(o) - 1) : o[i] = "%" /\ o[i + 1] = "p"}
        IN  IF P = {} THEN n = o
            ELSE LET i == CHOOSE x \in P : \A y \in P : x <= y
                     d == Len(n) - (Len(o) - 2)
                 IN  /\ d >= 1
                     /\ SubSeq(n, 1, i - 1) = SubSeq(o, 1, i - 1)
                     /\ IsDecimal(SubSeq(n, i, i + d - 1))
                     /\ DecimalValue(SubSeq(n, i, i + d - 1)) = pid
                     /\ SubSeq(n, i + d, Len(n)) = SubSeq(o, i + 2, Len(o))

\* C10 happens: a file was opened for options with two placeholders, by a
\* process whose id has several digits.
C10_Witness ==
    /\ opened_name # NULL /\ pid > 9
    /\ Deref(options) = <<"%", "p", "%", "p">>


\* C11: in lookup_method the shutdown answer is the only failure absorbed.
\* A lookup returns a record only if every failure it was answered is a
\* missing source file name (query 4) or a missing line-number table
\* (query 5); the records of an event therefore always carry a method name,
\* a method signature and a class signature; and a handler is abandoned only
\* after the runtime answered JVMTI_ERROR_WRONG_PHASE, so that every other
\* failure ended the process in report_error.
C11_OnlyShutdownAbsorbed ==
    \A t \in Threads :
      /\ \A a \in local[t].accepted :
           /\ a[1] \in {4, 5}
           /\ a[2] \in {JVMTI_ERROR_NATIVE_METHOD, JVMTI_ERROR_ABSENT_INFORMATION}
      /\ \A k \in 1..Len(local[t].methods) :
           /\ local[t].methods[k].method_name # NULL
           /\ local[t].methods[k].method_signature # NULL
           /\ local[t].methods[k].class_signature # NULL
      /\ status[t] = "abandoned" => t \in shutdown_seen


\* The live allocations made for thread t's event
HeapOf(t) == {a \in heap : a[1][1] = t}

\* C12: every MethodData of a compiledMethodLoad event and each of its
\* populated fields is released exactly once on every exit that does not end
\* the process. Nothing is ever released twice; the live allocations of an
\* event are exactly those of the records on its list, each record at its own
\* address, so a record abandoned in lookup_method is already released and is
\* not on the list; and once the handler has returned, whether it wrote its
\* record, found output_file NULL or was abandoned, none is live.
C12_ReleasedOnce ==
    /\ ~double_free
    /\ \A t \in Threads :
         /\ HeapOf(t) = UNION {Allocations(local[t].methods[k]) :
                                 k \in 1..Len(local[t].methods)}
         /\ \A k1, k2 \in 1..Len(local[t].methods) :
              k1 # k2 => local[t].methods[k1].addr # local[t].methods[k2].addr
         /\ pc[t] = "done" => HeapOf(t) = {} /\ local[t].methods = <<>>

\* A handler abandoned at the lookup of an inlined frame, after its primary
\* method's record was created, has returned and nothing is live
C12_Witness ==
    \E t \in Threads :
      /\ pc[t] = "done" /\ status[t] = "abandoned"
      /\ local[t].nrec >= 2
      /\ HeapOf(t) = {} /\ ~double_free


\* C13: the session only moves UNINITIALIZED -> OPEN -> CLOSED. output_file
\* becomes non-NULL in one step only, taken by Agent_OnLoad while it holds
\* the lock, which opens the stream that was never opened before; it becomes
\* NULL again in one step only, taken by Agent_OnUnload while it holds the
\* lock, after the one step that closed the open stream; a closed stream
\* stays closed; the file grows only while output_file is non-NULL and the
\* stream is open; and in every state output_file is non-NULL only from the
\* open until Agent_OnUnload has cleared it.
C13_OpenedOnceClosedOnce ==
    /\ [](/\ output_file # NULL =>
               /\ stream \in {"open", "closed"}
               /\ stream = "closed" =>
                    pc[OnUnloadThread] = "U_null" /\ file_lock = OnUnloadThread
          /\ output_file = NULL => stream \in {"unopened", "closed"}
          /\ pc[OnUnloadThread] = "U_done" => output_file = NULL /\ stream = "closed"
          /\ stream = "unopened" => file = <<>>)
    /\ [][/\ output_file' # output_file =>
               \/ /\ output_file = NULL /\ stream = "unopened" /\ stream' = "open"
                  /\ file_lock = OnLoadThread /\ file_lock' = OnLoadThread
               \/ /\ output_file' = NULL /\ stream = "closed" /\ stream' = "closed"
                  /\ file_lock = OnUnloadThread /\ file_lock' = OnUnloadThread
          /\ stream' # stream =>
               \/ stream = "unopened" /\ stream' = "open" /\ output_file' # NULL
               \/ /\ stream = "open" /\ stream' = "closed"
                  /\ file_lock = OnUnloadThread /\ file_lock' = OnUnloadThread
          /\ file' # file =>
               /\ output_file # NULL /\ output_file' = output_file
               /\ stream = "open" /\ stream' = "open"
               /\ Len(file') > Len(file)
               /\ SubSeq(file', 1, Len(file)) = file]_vars

\* The session has gone through all three states: the sink is NULL again,
\* the stream is closed, and the file holds the header and a record
C13_Witness ==
    /\ pc[OnUnloadThread] = "U_done"
    /\ output_file = NULL /\ stream = "closed"
    /\ Len(file) > Len(ExpectedHeader)
    /\ \E t \in Threads : status[t] = "written"


\* The four bytes of the two's complement of x, most significant first,
\* computed from its magnitude: a negative x is x + 2^31 with the sign bit set
BigEndian32(x) ==
    LET y == IF x >= 0 THEN x ELSE (x + 2147483647) + 1
        top == y \div 16777216
        rest == y - top * 16777216
    IN  << IF x >= 0 THEN top ELSE top + 128,
           rest \div 65536, (rest \div 256) % 256, rest % 256 >>

\* The code address in the record thread t wrote
AddressWritten(t) ==
    IF todo[t].kind = DynamicCodeGenerated
    THEN ReadDYNC(Written(t)).code_addr ELSE ReadCMUT(Written(t)).code_addr

\* C14: write_unsigned_jlong emits exactly the eight bytes of the big-endian
\* representation of its argument, which are the big-endian bytes of its high
\* word followed by those of its low word, on little-endian and on big-endian
\* hosts, for negative values and values whose words have the top bit set;
\* write_jint emits the four big-endian bytes of its argument. In the file,
\* the code address of every record written is the eight bytes of the
\* event's address.
C14_BigEndian ==
    /\ \A v \in WideValues : \A little \in BOOLEAN :
         /\ write_unsigned_jlong(v.bytes, little) = Wrote(v.bytes)
         /\ Len(v.bytes) = 8
         /\ v.bytes = BigEndian32(v.hi) \o BigEndian32(v.lo)
         /\ write_jint(v.hi, little) = Wrote(BigEndian32(v.hi))
         /\ write_jint(v.lo, little) = Wrote(BigEndian32(v.lo))
    /\ \A t \in Threads :
         status[t] = "written" =>
           /\ WroteItsRecord(t)
           /\ AddressWritten(t) = todo[t].code_addr
           /\ \E v \in WideValues :
                /\ v.bytes = todo[t].code_addr
                /\ ReadInt(AddressWritten(t), 1).val = v.hi
                /\ ReadInt(AddressWritten(t), 5).val = v.lo

\* A little-endian host has written a record whose address has a zero high
\* word and a low word with the top bit set
C14_Witness ==
    \E t \in Threads :
      /\ little_endian /\ status[t] = "written" /\ Returned(t)
      /\ todo[t].code_addr = <<0, 0, 0, 0, 128, 0, 0, 0>>
      /\ AddressWritten(t) = <<0, 0, 0, 0, 128, 0, 0, 0>>


\* The labels at which compiledMethodLoad calls lookup_method before locking
QueryLabels == {"cml_primary", "cml_frames"}

\* C15: no handler queries the runtime while it holds the lock. A handler at
\* one of the lookups of compiledMethodLoad does not hold the lock; the
\* method of the frame that write_method_load_event is about to look up is
\* already on the list; and no step taken while a handler holds the lock
\* creates a record, changes its list or its count, allocates or releases
\* for its event, is answered JVMTI_ERROR_WRONG_PHASE, fails on a query or
\* dereferences a NULL returned by lookup_method.
C15_NoQueryUnderLock ==
    /\ [](\A t \in Threads :
            /\ pc[t] \in QueryLabels => file_lock # t
            /\ pc[t] = "wml_frame" =>
                 /\ file_lock = t
                 /\ FindFrom(local[t].methods,
                             Deref(local[t].inline_records).pcinfo[local[t].i]
                                 .methods[local[t].j], 1) # 0
            /\ term = "crashed" => ended_by # t)
    /\ [][\A t \in Threads :
            file_lock = t =>
              /\ local'[t].nrec = local[t].nrec
              /\ local'[t].methods = local[t].methods
              /\ local'[t].methods_count = local[t].methods_count
              /\ {a \in heap' : a[1][1] = t} = {a \in heap : a[1][1] = t}
              /\ (t \in shutdown_seen') = (t \in shutdown_seen)
              /\ ended_by' = t => fault' # "jvmti" /\ term' # "crashed"]_vars

\* A handler that holds the lock has encoded the frames of a compiled method
\* whose inlined frames brought further methods into the cache
C15_Witness ==
    \E t \in Threads :
      /\ file_lock = t /\ pc[t] = "wml_flush"
      /\ local[t].inline_records # NULL
      /\ Len(local[t].methods) >= 2
      /\ \E i \in 1..Deref(local[t].inline_records).numpcs :
           Deref(local[t].inline_records).pcinfo[i].numstackframes >= 2


\* The control points at which a thread does not hold the lock
UnlockedLabels ==
    {"idle", "cmu_lock", "dcg_lock", "cml_primary", "cml_frames", "wml_lock",
     "cml_cleanup", "done", "onload", "L_caps", "L_lock", "L_done", "onunload",
     "U_done"}

\* C16: every acquisition of the lock is followed by its release on every
\* path that does not end the process: a thread holds the lock only between
\* its lock and its unlock, never before its call or after its return, also
\* when it found output_file NULL. Under fair scheduling every handler that
\* has been invoked returns, and Agent_OnUnload, once Agent_OnLoad has
\* returned, completes, unless the process is ended by a fatal error.
C16_LockReleased ==
    /\ [](\A t \in AllThreads :
            /\ pc[t] \in UnlockedLabels => file_lock # t
            /\ pc[t] \notin UnlockedLabels => file_lock = t /\ acquired[t] = 1
            /\ acquired[t] <= 1)
    /\ \A t \in Threads :
         (pc[t] \notin {"idle", "done"}) ~> (pc[t] = "done" \/ ~Running)
    /\ (pc[OnLoadThread] = "L_done") ~> (pc[OnUnloadThread] = "U_done" \/ ~Running)
    /\ (pc[OnLoadThread] = "L_lock") ~> (pc[OnLoadThread] = "L_done" \/ ~Running)

\* Everything has returned and the lock is free; one handler had found
\* output_file NULL after taking the lock, another had written its record
C16_Witness ==
    /\ Running /\ file_lock = Unlocked
    /\ pc[OnLoadThread] = "L_done" /\ pc[OnUnloadThread] = "U_done"
    /\ \A t \in Threads : pc[t] = "done"
    /\ \E t \in Threads : status[t] = "noop" /\ acquired[t] = 1
    /\ \E t \in Threads : status[t] = "written" /\ acquired[t] = 1


RECURSIVE SumOver(_, _)
\* The sum of f[k] over the positions k of the sequence f
SumOver(f, k) == IF k = 0 THEN 0 ELSE f[k] + SumOver(f, k - 1)

\* The bytes the method table entry of method m occupies: three strings with
\* their lengths, the source file (its length alone when there is none), the
\* line count and twelve bytes per line
EntrySize(m) ==
    LET info == meta[m]
    IN  (4 + Len(info.class_signature)) + (4 + Len(info.method_name))
          + (4 + Len(info.method_signature))
          + (IF info.res[4] = JVMTI_ERROR_NONE THEN 4 + Len(info.source_file) ELSE 4)
          + 4 + (IF info.res[5] = JVMTI_ERROR_NONE
                 THEN 12 * Len(info.line_number_table) ELSE 0)

\* The length of the CMLT record of event e, from the event and the runtime's
\* metadata alone
RecordSize(e) ==
    LET order == SeenOrder(e)
        info == InlineInfoOf(e)
    IN  4 + 16 + 8 + 4 + Len(e.code)
          + 4 + 4 + SumOver([k \in 1..Len(order) |-> EntrySize(order[k])], Len(order))
          + 4 + 4 + SumOver([i \in 1..Len(info) |-> 12 + 8 * Len(info[i].methods)],
                            Len(info))

\* C17: the counts of every CMLT record are consistent. Read by its counts,
\* the record ends exactly where the handler's bytes end, and it has the
\* length that the event's methods, lines, pc entries and frames give it;
\* the method count is the number of distinct methods of the event, each
\* line count the length of the method's line-number table, the number of pc
\* entries and each frame count those of the event's inline record. Without
\* an inline record the DEBI tag is followed by the count 0 and nothing else.
C17_ConsistentCounts ==
    \A t \in Threads :
      (todo[t].kind = CompiledMethodLoad /\ status[t] = "written") =>
        LET e == todo[t]
            b == Written(t)
            r == ReadCMLT(b)
            order == SeenOrder(e)
            info == InlineInfoOf(e)
        IN  /\ r.ok /\ r.next = Len(b) + 1
            /\ Len(b) = RecordSize(e)
            /\ r.methods_count = Len(order) /\ Len(r.methods) = r.methods_count
            /\ \A k \in 1..Len(order) :
                 /\ r.methods[k].line_count = Len(r.methods[k].lines)
                 /\ r.methods[k].line_count =
                      (IF meta[order[k]].res[5] = JVMTI_ERROR_NONE
                       THEN Len(meta[order[k]].line_number_table) ELSE 0)
            /\ r.numpcs = Len(info) /\ Len(r.pcs) = r.numpcs
            /\ \A i \in 1..Len(info) :
                 /\ r.pcs[i].numstackframes = Len(info[i].methods)
                 /\ Len(r.pcs[i].frames) = r.pcs[i].numstackframes
            /\ FindInlineRecord(e.compile_info, 1) = NULL =>
                 /\ r.numpcs = 0
                 /\ SubSeq(b, Len(b) - 7, Len(b)) = <<68, 69, 66, 73, 0, 0, 0, 0>>

\* A record of a method with two lines, written for an event whose
\* compile_info holds no inline record: it ends with DEBI and the count 0
C17_Witness ==
    \E t \in Threads :
      /\ todo[t].kind = CompiledMethodLoad /\ status[t] = "written"
      /\ todo[t].compile_info = <<DummyRecord>>
      /\ ReadCMLT(Written(t)).ok
      /\ ReadCMLT(Written(t)).methods[1].line_count = 2
      /\ ReadCMLT(Written(t)).numpcs = 0


RECURSIVE ReadRecords(_, _)
\* The CMLT records of the file b from position p on, where records of any
\* kind follow one another; a stretch that is no record ends the list with
\* an entry that is not ok
ReadRecords(b, p) ==
    IF p > Len(b) THEN <<>>
    ELSE LET rest == SubSeq(b, p, Len(b))
             d == ReadDYNC(rest)
             u == ReadCMUT(rest)
             l == ReadCMLT(rest)
         IN  IF l.ok THEN <<l>> \o ReadRecords(b, p + l.next - 1)
             ELSE IF d.ok THEN ReadRecords(b, p + d.next - 1)
             ELSE IF u.ok THEN ReadRecords(b, p + u.next - 1)
             ELSE <<[ok |-> FALSE]>>

\* The method names of the table that the event e should leave
TableOf(e) == [k \in 1..Len(SeenOrder(e)) |-> meta[SeenOrder(e)[k]].method_name]

\* The method names of the table of the record r
NamesIn(r) == [k \in 1..Len(r.methods) |-> r.methods[k].method_name]

\* The method that thread t's next lookup resolves
Resolving(t) ==
    IF pc[t] = "cml_primary" THEN todo[t].method
    ELSE Deref(local[t].inline_records).pcinfo[local[t].i].methods[local[t].j]

\* C18: the method cache is per event and deduplicating. A call of
\* compiledMethodLoad starts with an empty list, the count 0 and nothing
\* allocated, whatever an earlier call on the thread or a concurrent call
\* did; its list holds only methods of its own event, each once, in the
\* order of first mention with the ids 0, 1, 2, ...; a lookup of a method
\* already on the list changes neither the list nor the count and makes no
\* query; and the method table of every CMLT record in the file is that of
\* one event, without repetition and without an entry of another event.
C18_FreshCachePerEvent ==
    /\ [](\A t \in Threads :
            /\ pc[t] = "cml_primary" =>
                 /\ local[t].methods = <<>> /\ local[t].methods_count = 0
                 /\ {a \in heap : a[1][1] = t} = {}
            /\ local[t].methods # <<>> =>
                 /\ local[t].methods_count = Len(local[t].methods)
                 /\ Len(local[t].methods) <= Len(SeenOrder(todo[t]))
                 /\ \A k \in 1..Len(local[t].methods) :
                      /\ local[t].methods[k].id = k - 1
                      /\ local[t].methods[k].method = SeenOrder(todo[t])[k]
                 /\ \A k1, k2 \in 1..Len(local[t].methods) :
                      k1 # k2 => local[t].methods[k1].method # local[t].methods[k2].method)
    /\ [](file_lock = Unlocked /\ Len(file) >= Len(ExpectedHeader) =>
            LET rs == ReadRecords(file, Len(ExpectedHeader) + 1)
            IN  \A n \in 1..Len(rs) :
                  /\ rs[n].ok
                  /\ rs[n].methods_count = Len(rs[n].methods)
                  /\ \A k1, k2 \in 1..Len(rs[n].methods) :
                       k1 # k2 => NamesIn(rs[n])[k1] # NamesIn(rs[n])[k2]
                  /\ \E k \in DOMAIN FewEvents :
                       /\ FewEvents[k].kind = CompiledMethodLoad
                       /\ NamesIn(rs[n]) = TableOf(FewEvents[k])
                  /\ \A i \in 1..Len(rs[n].pcs) : \A j \in 1..Len(rs[n].pcs[i].frames) :
                       /\ rs[n].pcs[i].frames[j].id >= 0
                       /\ rs[n].pcs[i].frames[j].id < rs[n].methods_count)
    /\ [][\A t \in Threads :
            (/\ pc[t] \in {"cml_primary", "cml_frames", "wml_frame"}
             /\ FindFrom(local[t].methods, Resolving(t), 1) # 0) =>
              /\ local'[t].methods = local[t].methods
              /\ local'[t].methods_count = local[t].methods_count
              /\ local'[t].nrec = local[t].nrec
              /\ {a \in heap' : a[1][1] = t} = {a \in heap : a[1][1] = t}]_vars

\* Thread 1 has delivered a compiled method with inlined frames and then one
\* without, and the file holds the two records with their own tables, the
\* second with the single method of its event
C18_Witness ==
    /\ file_lock = Unlocked
    /\ pc[1] = "done" /\ later[1] = <<>> /\ status[1] = "written"
    /\ todo[1] = FewEvents[4] /\ todo[2].kind # CompiledMethodLoad
    /\ LET rs == ReadRecords(file, Len(ExpectedHeader) + 1)
       IN  /\ Len(rs) = 2 /\ rs[1].ok /\ rs[2].ok
           /\ NamesIn(rs[1]) = TableOf(FewEvents[5])
           /\ NamesIn(rs[2]) = TableOf(FewEvents[4])
           /\ rs[1].methods_count = 2 /\ rs[2].methods_count = 1


\* Control points at which a handler has been invoked and has not yet taken
\* the lock
BeforeLockLabels == {"cmu_lock", "dcg_lock", "cml_primary", "cml_frames", "wml_lock"}
\* Control points at which a handler, holding the lock, tests output_file
CheckLabels == {"cmu_check", "dcg_check", "wml_check"}

C20_ExitStatus ==
    /\ tw.reported => tw.child = "ended"
    /\ tw.pc = "exited" =>
         IF tw.argc < 2 \/ tw.child = "none" THEN tw.ret = 1 /\ ~tw.reported
         ELSE /\ tw.child = "ended" /\ tw.reported
              /\ tw.exec_failed => tw.wstatus = ExitedWith(1)
              /\ tw.ret = IF WIFEXITED(tw.wstatus) THEN WEXITSTATUS(tw.wstatus) ELSE 1

\* C20 where the claim is right: no command, a failed fork, the wait before
\* the report, and the exit status whenever waitpid delivered the status
C20_ExitStatusWhenWaited ==
    /\ tw.reported => tw.child = "ended"
    /\ tw.pc = "exited" =>
         IF tw.argc < 2 \/ tw.child = "none" THEN tw.ret = 1 /\ ~tw.reported
         ELSE /\ tw.child = "ended" /\ tw.reported
              /\ tw.exec_failed => tw.wstatus = ExitedWith(1)
              /\ tw.assigned =>
                   tw.ret = IF WIFEXITED(tw.wstatus) THEN WEXITSTATUS(tw.wstatus) ELSE 1

====
